---- MODULE Spec2Model ----
(***************************************************************************)
(* A model of nanomux's responder tree (registration and per-node          *)
(* dispatch) and of the templates the tree is keyed by.                    *)
(*                                                                         *)
(* Strings that the code takes apart (static template content, request     *)
(* path segments) are sequences of one-character strings; names that are   *)
(* only compared are plain strings.  Go's nil is NIL.                      *)
(***************************************************************************)
EXTENDS Integers, Sequences, FiniteSets, TLC

\* ------------------------------------------------------------------ bounds

\* Number of resources constructed by the caller before registration starts.
NumResources == 2

\* Number of calls in a run that change the tree.
MaxCalls == 3

\* Number of dummy resources the path operations may create.
MaxDummies == 3

\* ------------------------------------------------------------------ values

NIL == -1

Host == 0

PoolNodes == 1..NumResources

DummyNodes == (NumResources + 1)..(NumResources + MaxDummies)

Resources == PoolNodes \cup DummyNodes

Nodes == {Host} \cup Resources

\* Error values (nil is "nil").  Diverge marks a call that never returns
\* (an endless parent walk or an unbounded recursion over a cyclic tree).
ErrNil == "nil"

\* The call panics instead of returning.
Panic == "panic"
Diverge == "diverge"
ErrNonRouterParent == "ErrNonRouterParent"
ErrRegisteredResource == "ErrRegisteredResource"
ErrDuplicateResourceTemplate == "ErrDuplicateResourceTemplate"
ErrDuplicateNameInTheURL == "ErrDuplicateNameInTheURL"
ErrDuplicateValueNameInTheURL == "ErrDuplicateValueNameInTheURL"
ErrDuplicateNameAmongSiblings == "ErrDuplicateNameAmongSiblings"
ErrConflictingSecurity == "ErrConflictingSecurity"
ErrConflictingTrailingSlash == "ErrConflictingTrailingSlash"
ErrConflictingConfig == "ErrConflictingConfig"
ErrConflictingHost == "ErrConflictingHost"
ErrConflictingPath == "ErrConflictingPath"
ErrConflictingPathSegment == "ErrConflictingPathSegment"
ErrWildcardHostTemplate == "ErrWildcardHostTemplate"
ErrDifferentTemplates == "ErrDifferentTemplates"
ErrDifferentValueNames == "ErrDifferentValueNames"
ErrDifferentNames == "ErrDifferentNames"

\* ------------------------------------------------------------------ templates

\* Similarity values, in the order of the iota.
Different == 0
DifferentValueNames == 1
DifferentNames == 2
TheSame == 3

\* The source of a character-class repetition, one character of the model's
\* strings: "[a]+" is the class {"a"} repeated.
ClassAtom(cls) ==
    CASE cls = {"a"} -> "[a]+"
      [] cls = {"b"} -> "[b]+"
      [] cls = {"a", "b"} -> "[ab]+"

\* A compiled regular expression.  The model's regexes are the character-class
\* repetitions [cls]+ between any number of ^ and of $; src is String(), the
\* source text it was compiled from, and cls, anchS and anchE are what the
\* source means, so two regexes have the same source iff the records are equal.
Regex(cls, anchS, anchE) ==
    [cls |-> cls, anchS |-> anchS, anchE |-> anchE,
     src |-> (IF anchS THEN <<"^">> ELSE <<>>) \o <<ClassAtom(cls)>>
                \o (IF anchE THEN <<"$">> ELSE <<>>)]

NoRe == [cls |-> {}, anchS |-> FALSE, anchE |-> FALSE, src |-> <<>>]

NoVP == [name |-> "", re |-> NoRe, isNil |-> TRUE]

\* _ValuePattern; re = NoRe is the nil regex of a wildcard.
ValuePattern(name, re) == [name |-> name, re |-> re, isNil |-> FALSE]

\* _TemplateSlice: a static slice or a dynamic (name-pattern) slice.
StaticSlice(str) == [staticStr |-> str, valuePattern |-> NoVP]

DynamicSlice(name, re) == [staticStr |-> <<>>, valuePattern |-> ValuePattern(name, re)]

\* Template; wildCardIdx is the 0-based index of the wildcard slice or -1.
Template(name, slices, wildCardIdx) ==
    [name |-> name, slices |-> slices, wildCardIdx |-> wildCardIdx]

IsStatic(t) == Len(t.slices) = 1 /\ t.slices[1].staticStr # <<>>

IsWildcard(t) ==
    /\ Len(t.slices) = 1
    /\ ~t.slices[1].valuePattern.isNil
    /\ t.slices[1].valuePattern.re = NoRe

RECURSIVE SlicesSimilarity(_, _, _, _)
\* The slice loop of SimilarityWith from index i on; sim is the similarity so
\* far.  A dynamic slice of the receiver against a static slice of the
\* argument dereferences the nil valuePattern of the static slice: "panic".
SlicesSimilarity(t, a, i, sim) ==
    IF i > Len(t.slices) THEN sim
    ELSE LET slc1 == t.slices[i]
             slc2 == a.slices[i]
         IN IF slc1.staticStr # <<>>
            THEN IF slc1.staticStr # slc2.staticStr THEN Different
                 ELSE SlicesSimilarity(t, a, i + 1, sim)
            ELSE IF slc2.valuePattern.isNil THEN -1
            ELSE IF slc1.valuePattern.re # NoRe /\ slc2.valuePattern.re # NoRe
            THEN IF slc1.valuePattern.re # slc2.valuePattern.re THEN Different
                 ELSE SlicesSimilarity(t, a, i + 1,
                        IF slc1.valuePattern.name # slc2.valuePattern.name
                        THEN DifferentValueNames ELSE sim)
            ELSE IF slc1.valuePattern.re = NoRe /\ slc2.valuePattern.re = NoRe
            THEN SlicesSimilarity(t, a, i + 1,
                        IF slc1.valuePattern.name # slc2.valuePattern.name
                        THEN DifferentValueNames ELSE sim)
            ELSE Different

\* Template.SimilarityWith; -1 stands for the panic of the slice loop.
SimilarityWith(t, a) ==
    IF IsStatic(t)
    THEN IF IsStatic(a) /\ t.slices[1].staticStr = a.slices[1].staticStr
         THEN IF t.name # a.name THEN DifferentNames ELSE TheSame
         ELSE Different
    ELSE IF IsWildcard(t)
    THEN IF IsWildcard(a)
         THEN IF t.slices[1].valuePattern.name = a.slices[1].valuePattern.name
              THEN IF t.name # a.name THEN DifferentNames ELSE TheSame
              ELSE DifferentValueNames
         ELSE Different
    ELSE IF IsStatic(a) \/ IsWildcard(a) THEN Different
    ELSE IF t.wildCardIdx # a.wildCardIdx THEN Different
    ELSE IF Len(t.slices) # Len(a.slices) THEN Different
    ELSE LET sim == SlicesSimilarity(t, a, 1, TheSame)
         IN IF sim = TheSame /\ t.name # a.name THEN DifferentNames ELSE sim

\* regexp.FindStringIndex for the model's regexes: the leftmost run of
\* characters of the class, as long as it can be; <<start, end>> (0-based,
\* end exclusive) or <<>> for nil.
FindStringIndex(re, str) ==
    LET n == Len(str)
        runEnd(s) == CHOOSE e \in s + 1..n :
                        /\ \A j \in s + 1..e : str[j] \in re.cls
                        /\ e = n \/ str[e + 1] \notin re.cls
        ok(s) == /\ str[s + 1] \in re.cls
                 /\ re.anchS => s = 0
                 /\ re.anchE => \A j \in s + 1..n : str[j] \in re.cls
        starts == {s \in 0..n - 1 : ok(s)}
    IN IF starts = {} THEN <<>>
       ELSE LET s == CHOOSE x \in starts : \A y \in starts : x <= y
            IN <<s, runEnd(s)>>

\* The start of the last match regexp.FindAllStringIndex(str, -1) returns,
\* or -1 for nil: the matches are the successive leftmost runs.
LastMatchStart(re, str) ==
    LET n == Len(str)
        ok(s) == /\ str[s + 1] \in re.cls
                 /\ s = 0 \/ str[s] \notin re.cls
                 /\ re.anchS => s = 0
                 /\ re.anchE => \A j \in s + 1..n : str[j] \in re.cls
        starts == {s \in 0..n - 1 : ok(s)}
    IN IF starts = {} THEN -1
       ELSE CHOOSE x \in starts : \A y \in starts : y <= x

HasPrefix(str, pre) == Len(pre) <= Len(str) /\ SubSeq(str, 1, Len(pre)) = pre

HasSuffix(str, suf) ==
    Len(suf) <= Len(str) /\ SubSeq(str, Len(str) - Len(suf) + 1, Len(str)) = suf

NoMatch == [matched |-> FALSE, values |-> [j \in {} |-> <<>>], str |-> <<>>]

\* values[name] = v of a map.
SetValue(values, name, v) ==
    [j \in DOMAIN values \cup {name} |-> IF j = name THEN v ELSE values[j]]

RECURSIVE MatchPrefix(_, _, _, _, _)
\* The first loop of Match: the slices i..k (1-based) against the front of str.
MatchPrefix(t, i, k, str, values) ==
    IF i > k THEN [matched |-> TRUE, values |-> values, str |-> str]
    ELSE LET sstr == t.slices[i].staticStr
             vp == t.slices[i].valuePattern
         IN IF sstr # <<>>
            THEN IF HasPrefix(str, sstr)
                 THEN MatchPrefix(t, i + 1, k, SubSeq(str, Len(sstr) + 1, Len(str)), values)
                 ELSE NoMatch
            ELSE LET idxs == FindStringIndex(vp.re, str)
                 IN IF idxs = <<>> THEN NoMatch
                    ELSE LET v == SubSeq(str, 1, idxs[2])
                             rest == SubSeq(str, idxs[2] + 1, Len(str))
                         IN IF vp.name \in DOMAIN values
                            THEN IF v # values[vp.name] THEN NoMatch
                                 ELSE MatchPrefix(t, i + 1, k, rest, values)
                            ELSE MatchPrefix(t, i + 1, k, rest, SetValue(values, vp.name, v))

RECURSIVE MatchSuffix(_, _, _, _, _)
\* The second loop of Match: the slices i down to k + 1 against the end of str.
MatchSuffix(t, i, k, str, values) ==
    IF i <= k THEN [matched |-> TRUE, values |-> values, str |-> str]
    ELSE LET sstr == t.slices[i].staticStr
             vp == t.slices[i].valuePattern
         IN IF sstr # <<>>
            THEN IF HasSuffix(str, sstr)
                 THEN MatchSuffix(t, i - 1, k, SubSeq(str, 1, Len(str) - Len(sstr)), values)
                 ELSE NoMatch
            ELSE LET st == LastMatchStart(vp.re, str)
                 IN IF st = -1 THEN NoMatch
                    ELSE LET v == SubSeq(str, st + 1, Len(str))
                             rest == SubSeq(str, 1, st)
                         IN IF vp.name \in DOMAIN values
                            THEN IF v # values[vp.name] THEN NoMatch
                                 ELSE MatchSuffix(t, i - 1, k, rest, values)
                            ELSE MatchSuffix(t, i - 1, k, rest, SetValue(values, vp.name, v))

\* Template.Match: whether str matches the template, and the values.
Match(t, str) ==
    IF IsStatic(t)
    THEN [matched |-> t.slices[1].staticStr = str, values |-> NoMatch.values]
    ELSE IF IsWildcard(t)
    THEN [matched |-> TRUE,
          values |-> SetValue(NoMatch.values, t.slices[1].valuePattern.name, str)]
    ELSE LET n == Len(t.slices)
             k == IF t.wildCardIdx >= 0 THEN t.wildCardIdx ELSE n
             m1 == MatchPrefix(t, 1, k, str, NoMatch.values)
         IN IF ~m1.matched THEN [matched |-> FALSE, values |-> NoMatch.values]
            ELSE LET m2 == MatchSuffix(t, n, k + 1, m1.str, m1.values)
                 IN IF ~m2.matched THEN [matched |-> FALSE, values |-> NoMatch.values]
                    ELSE [matched |-> TRUE,
                          values |-> IF t.wildCardIdx >= 0 /\ m2.str # <<>>
                                     THEN SetValue(m2.values,
                                            t.slices[t.wildCardIdx + 1].valuePattern.name,
                                            m2.str)
                                     ELSE m2.values]

\* Similarity.Err
SimilarityErr(s) ==
    CASE s = Different -> ErrDifferentTemplates
      [] s = DifferentValueNames -> ErrDifferentValueNames
      [] s = DifferentNames -> ErrDifferentNames
      [] s = TheSame -> ErrNil

\* Template.ValueNames: the value names of the dynamic slices.
ValueNames(t) ==
    {t.slices[i].valuePattern.name :
        i \in {j \in 1..Len(t.slices) : ~t.slices[j].valuePattern.isNil}}

\* Template.HasValueName: some given name is a value name of the template.
HasValueName(t, names) == ValueNames(t) \cap names # {}

\* Template.UnescapedContent of a static template: its literal text.
UnescapedContent(t) == t.slices[1].staticStr

\* The root template "/".
IsRootTmpl(t) == IsStatic(t) /\ UnescapedContent(t) = <<"/">>

\* The template of a node that has not been created.
NoTmpl == Template("", <<>>, -1)

\* ------------------------------------------------------------------ config

flagActive == "active"
flagSubtreeHandler == "subtreeHandler"
flagSecure == "secure"
flagRedirectInsecure == "redirectInsecure"
flagTrailingSlash == "trailingSlash"
flagStrictOnTrailingSlash == "strictOnTrailingSlash"
flagLeniencyOnTrailingSlash == "leniencyOnTrailingSlash"
flagLeniencyOnUncleanPath == "leniencyOnUncleanPath"

\* _ConfigFlags.has: every bit of flags is set in cfs.
Has(cfs, flags) == flags \subseteq cfs

\* The nil *_ConfigFlags argument of configCompatibility.
NilCfs == {"nil"}

\* ------------------------------------------------------------------ the tree

\* A tree state S is a record of the fields of every _ResponderBase:
\*   tmpl, mh (has a method handler), papa, staticResources (a function from
\*   static content to node), patternResources (a sequence), wildcardResource,
\*   cfs (a set of flags).
Ok(S) == [S |-> S, err |-> ErrNil]

Fail(S, err) == [S |-> S, err |-> err]

\* Upper bound on the length of a parent chain and on the depth of a
\* recursion over an acyclic tree; a walk that exceeds it never ends.
Fuel == 2 * Cardinality(Nodes) + 2

\* canHandleRequest: the node has some HTTP method handler.
canHandleRequest(S, n) == S.mh[n]

\* Put x at key k of the map f.
MapPut(f, k, x) == [j \in DOMAIN f \cup {k} |-> IF j = k THEN x ELSE f[j]]

EmptyMap == [j \in {} |-> NIL]

RECURSIVE NamesWalk(_, _, _, _)
\* The loop of checkNamesAreUniqueInTheURL from p upwards.
NamesWalk(S, p, t, fuel) ==
    IF p = NIL THEN ErrNil
    ELSE IF fuel = 0 THEN Diverge
    ELSE IF t.name # "" /\ S.tmpl[p].name = t.name THEN ErrDuplicateNameInTheURL
    ELSE IF HasValueName(S.tmpl[p], ValueNames(t)) THEN ErrDuplicateValueNameInTheURL
    ELSE NamesWalk(S, S.papa[p], t, fuel - 1)

\* checkNamesAreUniqueInTheURL
checkNamesAreUniqueInTheURL(S, rb, t) ==
    IF t.name = "" /\ ValueNames(t) = {} THEN ErrNil
    ELSE NamesWalk(S, rb, t, Fuel)

\* The static children in the order a range over the map yields them: ord is
\* the iteration order of this run (a sequence of static contents).
StaticsInOrder(S, n, ord) ==
    LET keep(k) == k \in DOMAIN S.staticResources[n]
        F[i \in 0..Len(ord)] ==
            IF i = 0 THEN <<>>
            ELSE IF keep(ord[i]) THEN Append(F[i - 1], S.staticResources[n][ord[i]])
                 ELSE F[i - 1]
    IN F[Len(ord)]

\* ChildResources: statics, then patterns, then the wildcard.
ChildResources(S, n, ord) ==
    StaticsInOrder(S, n, ord) \o S.patternResources[n] \o
        (IF S.wildcardResource[n] # NIL THEN <<S.wildcardResource[n]>> ELSE <<>>)

\* The set of the direct children of n.
ChildSet(S, n) ==
    {S.staticResources[n][k] : k \in DOMAIN S.staticResources[n]}
        \cup {S.patternResources[n][i] : i \in 1..Len(S.patternResources[n])}
        \cup (IF S.wildcardResource[n] # NIL THEN {S.wildcardResource[n]} ELSE {})

RECURSIVE checkNamesOfTheChildrenAreUniqueInTheURL(_, _, _, _, _)
RECURSIVE ChildrenNamesLoop(_, _, _, _, _, _)
\* The loop of checkNamesOfTheChildrenAreUniqueInTheURL over chs from i on.
ChildrenNamesLoop(S, rb, chs, i, ord, fuel) ==
    IF i > Len(chs) THEN ErrNil
    ELSE LET err == checkNamesAreUniqueInTheURL(S, rb, S.tmpl[chs[i]])
         IN IF err # ErrNil THEN err
            ELSE LET err2 == checkNamesOfTheChildrenAreUniqueInTheURL(S, rb, chs[i], ord, fuel - 1)
                 IN IF err2 # ErrNil THEN err2
                    ELSE ChildrenNamesLoop(S, rb, chs, i + 1, ord, fuel)

\* checkNamesOfTheChildrenAreUniqueInTheURL
checkNamesOfTheChildrenAreUniqueInTheURL(S, rb, r, ord, fuel) ==
    IF rb = Host THEN ErrNil
    ELSE IF fuel = 0 THEN Diverge
    ELSE ChildrenNamesLoop(S, rb, ChildResources(S, r, ord), 1, ord, fuel)

\* validate (the template is never nil in the model)
validate(S, rb, t) == checkNamesAreUniqueInTheURL(S, rb, t)

NoNode(err) == [r |-> NIL, err |-> err]

\* A lookup that never finds a child.
resourceWithTemplateFindsNone(S, rb, t) == NoNode(ErrNil)

RECURSIVE PatternWithTemplate(_, _, _, _)
\* The scan of resourceWithTemplate over the pattern children from i on.
PatternWithTemplate(S, rb, t, i) ==
    IF i > Len(S.patternResources[rb]) THEN NoNode(ErrNil)
    ELSE LET pr == S.patternResources[rb][i]
             sim == SimilarityWith(S.tmpl[pr], t)
         IN IF sim = -1 THEN NoNode(Diverge)
            ELSE IF sim \in {DifferentValueNames, DifferentNames} THEN NoNode(SimilarityErr(sim))
            ELSE IF sim = TheSame THEN [r |-> pr, err |-> ErrNil]
            ELSE PatternWithTemplate(S, rb, t, i + 1)

\* resourceWithTemplate: the child whose template is similar to t.
resourceWithTemplate(S, rb, t) ==
    IF IsStatic(t)
    THEN IF UnescapedContent(t) \in DOMAIN S.staticResources[rb]
         THEN LET r == S.staticResources[rb][UnescapedContent(t)]
              IN IF S.tmpl[r].name # t.name THEN NoNode(ErrDifferentNames)
                 ELSE [r |-> r, err |-> ErrNil]
         ELSE NoNode(ErrNil)
    ELSE IF IsWildcard(t)
    THEN IF S.wildcardResource[rb] # NIL
         THEN LET sim == SimilarityWith(S.tmpl[S.wildcardResource[rb]], t)
              IN IF sim \in {DifferentValueNames, DifferentNames} THEN NoNode(SimilarityErr(sim))
                 ELSE IF sim = TheSame THEN [r |-> S.wildcardResource[rb], err |-> ErrNil]
                 ELSE NoNode(ErrNil)
         ELSE NoNode(ErrNil)
    ELSE PatternWithTemplate(S, rb, t, 1)

\* setParent of r (p = NIL detaches).  Every parent in the model is a host or
\* a resource, never a router.
setParent(S, r, p) ==
    IF p = NIL THEN Ok([S EXCEPT !.papa[r] = NIL])
    ELSE IF r = Host THEN Fail(S, ErrNonRouterParent)
    ELSE IF IsRootTmpl(S.tmpl[r]) THEN Fail(S, ErrNonRouterParent)
    ELSE Ok([S EXCEPT !.papa[r] = p])

\* registerResource: put r in the bucket of its template, then set its parent.
registerResource(S, rb, r) ==
    LET t == S.tmpl[r]
        S1 == IF IsStatic(t)
              THEN [S EXCEPT !.staticResources[rb] = MapPut(@, UnescapedContent(t), r)]
              ELSE IF IsWildcard(t)
              THEN [S EXCEPT !.wildcardResource[rb] = r]
              ELSE [S EXCEPT !.patternResources[rb] = Append(@, r)]
    IN setParent(S1, r, rb)

\* The index of oldR in the pattern children of rb, or 0 (Go's -1).
PatternIndex(S, rb, oldR) ==
    LET idxs == {i \in 1..Len(S.patternResources[rb]) : S.patternResources[rb][i] = oldR}
    IN IF idxs = {} THEN 0 ELSE CHOOSE i \in idxs : \A j \in idxs : i <= j

\* The two setParent calls of replaceResource; r1 is what the first returned.
ReplaceParents(r1, oldR) ==
    IF r1.err # ErrNil THEN r1 ELSE setParent(r1.S, oldR, NIL)

\* replaceResource: newR takes the place of oldR among the children of rb.
\* Indexing the pattern children with -1 panics, and so does the assignment
\* to an entry of the nil map (a map is nil iff it has no entry: entries are
\* never deleted one by one).
replaceResource(S, rb, oldR, newR) ==
    IF \/ /\ ~IsStatic(S.tmpl[oldR]) /\ ~IsWildcard(S.tmpl[oldR])
          /\ PatternIndex(S, rb, oldR) = 0
       \/ IsStatic(S.tmpl[oldR]) /\ S.staticResources[rb] = EmptyMap
    THEN Fail(S, Diverge)
    ELSE IF IsStatic(S.tmpl[oldR])
    THEN ReplaceParents(
             setParent([S EXCEPT !.staticResources[rb] =
                            MapPut(@, UnescapedContent(S.tmpl[oldR]), newR)], newR, rb),
             oldR)
    ELSE IF IsWildcard(S.tmpl[oldR])
    THEN ReplaceParents(setParent([S EXCEPT !.wildcardResource[rb] = newR], newR, rb), oldR)
    ELSE ReplaceParents(
             setParent([S EXCEPT !.patternResources[rb][PatternIndex(S, rb, oldR)] = newR],
                       newR, rb),
             oldR)

\* A config check that compares the supplied config before the trailing slash.
configCompatibilityConfigFirst(S, n, secure, tslash, argCfs) ==
    IF Has(S.cfs[n], {flagActive})
    THEN IF Has(S.cfs[n], {flagSecure}) # secure THEN Fail(S, ErrConflictingSecurity)
         ELSE IF argCfs # NilCfs /\ ~Has(S.cfs[n], argCfs) THEN Fail(S, ErrConflictingConfig)
         ELSE IF ~Has(S.cfs[n], {flagLeniencyOnTrailingSlash})
                 /\ Has(S.cfs[n], {flagTrailingSlash}) # tslash
         THEN Fail(S, ErrConflictingTrailingSlash)
         ELSE Ok(S)
    ELSE Ok([S EXCEPT !.cfs[n] = @ \cup {flagActive}
                         \cup (IF secure THEN {flagSecure} ELSE {})
                         \cup (IF tslash THEN {flagTrailingSlash} ELSE {})
                         \cup (IF argCfs # NilCfs THEN argCfs ELSE {})])

\* A configCompatibility that configures every node that was not configured
\* as secure, whatever the scheme of the template.
configCompatibilityAlwaysSecure(S, n, secure, tslash, argCfs) ==
    IF Has(S.cfs[n], {flagActive})
    THEN IF Has(S.cfs[n], {flagSecure}) # secure THEN Fail(S, ErrConflictingSecurity)
         ELSE IF ~Has(S.cfs[n], {flagLeniencyOnTrailingSlash})
                 /\ Has(S.cfs[n], {flagTrailingSlash}) # tslash
         THEN Fail(S, ErrConflictingTrailingSlash)
         ELSE IF argCfs # NilCfs /\ ~Has(S.cfs[n], argCfs) THEN Fail(S, ErrConflictingConfig)
         ELSE Ok(S)
    ELSE Ok([S EXCEPT !.cfs[n] = @ \cup {flagActive, flagSecure}
                         \cup (IF tslash THEN {flagTrailingSlash} ELSE {})
                         \cup (IF argCfs # NilCfs THEN argCfs ELSE {})])

\* configCompatibility of node n with the arguments; argCfs = NilCfs is the
\* nil pointer.
configCompatibility(S, n, secure, tslash, argCfs) ==
    LET rbcfs == S.cfs[n]
    IN IF Has(rbcfs, {flagActive})
       THEN IF Has(rbcfs, {flagSecure}) # secure THEN Fail(S, ErrConflictingSecurity)
            ELSE IF ~Has(rbcfs, {flagLeniencyOnTrailingSlash})
                    /\ Has(rbcfs, {flagTrailingSlash}) # tslash
            THEN Fail(S, ErrConflictingTrailingSlash)
            ELSE IF argCfs # NilCfs /\ ~Has(rbcfs, argCfs) THEN Fail(S, ErrConflictingConfig)
            ELSE Ok(S)
       ELSE Ok([S EXCEPT !.cfs[n] = @ \cup {flagActive}
                            \cup (IF secure THEN {flagSecure} ELSE {})
                            \cup (IF tslash THEN {flagTrailingSlash} ELSE {})
                            \cup (IF argCfs # NilCfs THEN argCfs ELSE {})])

RECURSIVE keepResourceOrItsChildResources(_, _, _, _, _)
RECURSIVE passChildResourcesTo(_, _, _, _, _)
RECURSIVE PassLoop(_, _, _, _, _, _)
\* One round of the loops of passChildResourcesTo: res is what r returned for
\* the child chs[i - 1]; the first error ends the loop with what was done.
PassNext(res, r, chs, i, ord, fuel) ==
    IF res.err # ErrNil THEN res ELSE PassLoop(res.S, r, chs, i, ord, fuel)

\* The loops of passChildResourcesTo over the children chs from i on: each is
\* handed to r.
PassLoop(S, r, chs, i, ord, fuel) ==
    IF i > Len(chs) THEN Ok(S)
    ELSE PassNext(keepResourceOrItsChildResources(S, r, chs[i], ord, fuel),
                  r, chs, i + 1, ord, fuel)

\* The end of passChildResourcesTo: r2 is what the loops and the wildcard
\* child left; the buckets of rb are emptied.
PassEnd(r2, rb) ==
    IF r2.err # ErrNil THEN r2
    ELSE Ok([r2.S EXCEPT !.staticResources[rb] = EmptyMap,
                         !.patternResources[rb] = <<>>,
                         !.wildcardResource[rb] = NIL])

\* The wildcard child of passChildResourcesTo: r1 is what the loops left.
PassWildcard(r1, rb, r, ord, fuel) ==
    IF r1.err # ErrNil THEN r1
    ELSE IF r1.S.wildcardResource[rb] # NIL
    THEN PassEnd(keepResourceOrItsChildResources(
                     r1.S, r, r1.S.wildcardResource[rb], ord, fuel), rb)
    ELSE PassEnd(r1, rb)

\* passChildResourcesTo: hand every child of rb to r, then empty rb's buckets.
passChildResourcesTo(S, rb, r, ord, fuel) ==
    PassWildcard(
        PassLoop(S, r, StaticsInOrder(S, rb, ord) \o S.patternResources[rb], 1, ord, fuel),
        rb, r, ord, fuel)

\* The replacement of rwt by r: p is what rwt.passChildResourcesTo(r) returned.
KeepReplace(p, rb, rwt, r) ==
    IF p.err # ErrNil THEN p ELSE replaceResource(p.S, rb, rwt, r)

\* keepResourceOrItsChildResources after the config check of rwt returned cc.
KeepChecked(cc, rb, rwt, r, ord, fuel) ==
    IF cc.err # ErrNil THEN cc
    ELSE IF ~canHandleRequest(cc.S, r)
    THEN passChildResourcesTo(cc.S, r, rwt, ord, fuel - 1)
    ELSE IF ~canHandleRequest(cc.S, rwt)
    THEN KeepReplace(passChildResourcesTo(cc.S, rwt, r, ord, fuel - 1), rb, rwt, r)
    ELSE Fail(cc.S, ErrDuplicateResourceTemplate)

\* keepResourceOrItsChildResources after resourceWithTemplate returned found.
KeepFound(S, found, rb, r, ord, fuel) ==
    IF found.err # ErrNil THEN Fail(S, found.err)
    ELSE IF found.r = NIL THEN registerResource(S, rb, r)
    ELSE KeepChecked(
             configCompatibility(S, found.r, Has(S.cfs[r], {flagSecure}),
                                 Has(S.cfs[r], {flagTrailingSlash}), S.cfs[r]),
             rb, found.r, r, ord, fuel)

\* keepResourceOrItsChildResources
keepResourceOrItsChildResources(S, rb, r, ord, fuel) ==
    IF fuel = 0 THEN Fail(S, Diverge)
    ELSE KeepFound(S, resourceWithTemplate(S, rb, S.tmpl[r]), rb, r, ord, fuel)

\* A lookup by name that never finds a child.
ChildResourceNamedFindsNone(S, n, name) == NIL

\* ChildResourceNamed: the direct child with the given name, or NIL.
ChildResourceNamed(S, n, name) ==
    IF name = "" THEN NIL
    ELSE IF S.wildcardResource[n] # NIL /\ S.tmpl[S.wildcardResource[n]].name = name
    THEN S.wildcardResource[n]
    ELSE LET ps == {i \in 1..Len(S.patternResources[n]) :
                        S.tmpl[S.patternResources[n][i]].name = name}
             ss == {k \in DOMAIN S.staticResources[n] :
                        S.tmpl[S.staticResources[n][k]].name = name}
         IN IF ps # {}
            THEN S.patternResources[n][CHOOSE i \in ps : \A j \in ps : i <= j]
            ELSE IF ss # {} THEN S.staticResources[n][CHOOSE k \in ss : TRUE]
            ELSE NIL

\* The model runs out of nodes: the bound on dummy resources is reached.
OutOfNodes == "out of nodes"

FreeDummies(S) == {d \in DummyNodes : S.tmpl[d] = NoTmpl}

\* newDummyResource: a new resource with the template, no handler, no config.
newDummyResource(S, d, t) == [S EXCEPT !.tmpl[d] = t]

SegRes(S, oldLast, newFirst, newLast, err) ==
    [S |-> S, oldLast |-> oldLast, newFirst |-> newFirst, newLast |-> newLast, err |-> err]

\* The free dummy node a new resource takes.
NextDummy(S) == CHOOSE x \in FreeDummies(S) : \A y \in FreeDummies(S) : x <= y

RECURSIVE SegmentLoop(_, _, _, _, _, _)
\* segmentResources after the new resource d was registered under newLast
\* with the result rr.
SegmentRegistered(rr, pss, i, oldLast, newFirst, newLast, d) ==
    IF rr.err # ErrNil THEN SegRes(rr.S, oldLast, newFirst, newLast, rr.err)
    ELSE SegmentLoop(rr.S, pss, i + 1, oldLast, newFirst, d)

\* segmentResources after the new resource d was created in S1 for pss[i].
SegmentCreated(S1, pss, i, oldLast, newFirst, newLast, d) ==
    IF newLast = NIL THEN SegmentLoop(S1, pss, i + 1, oldLast, d, d)
    ELSE IF checkNamesAreUniqueInTheURL(S1, newLast, pss[i]) # ErrNil
    THEN SegRes(S1, oldLast, newFirst, newLast,
                checkNamesAreUniqueInTheURL(S1, newLast, pss[i]))
    ELSE SegmentRegistered(registerResource(S1, newLast, d), pss, i, oldLast,
                           newFirst, newLast, d)

\* segmentResources for the segment pss[i] that no existing resource has.
SegmentNew(S, pss, i, oldLast, newFirst, newLast) ==
    IF validate(S, oldLast, pss[i]) # ErrNil
    THEN SegRes(S, oldLast, newFirst, newLast, validate(S, oldLast, pss[i]))
    ELSE IF FreeDummies(S) = {}
    THEN SegRes(S, oldLast, newFirst, newLast, OutOfNodes)
    ELSE SegmentCreated(newDummyResource(S, NextDummy(S), pss[i]), pss, i, oldLast,
                        newFirst, newLast, NextDummy(S))

\* segmentResources after the lookup of pss[i] under oldLast returned found.
SegmentFound(S, found, pss, i, oldLast, newFirst, newLast) ==
    IF found.err # ErrNil THEN SegRes(S, oldLast, newFirst, newLast, found.err)
    ELSE IF found.r # NIL THEN SegmentLoop(S, pss, i + 1, found.r, newFirst, newLast)
    ELSE SegmentNew(S, pss, i, oldLast, newFirst, newLast)

\* The loop of segmentResources from segment i on.
SegmentLoop(S, pss, i, oldLast, newFirst, newLast) ==
    IF i > Len(pss) THEN SegRes(S, oldLast, newFirst, newLast, ErrNil)
    ELSE IF newFirst = NIL
    THEN SegmentFound(S, resourceWithTemplate(S, oldLast, pss[i]), pss, i, oldLast,
                      newFirst, newLast)
    ELSE SegmentNew(S, pss, i, oldLast, newFirst, newLast)

\* segmentResources: the existing resources the segments lead to (oldLast the
\* last of them) and a chain newFirst..newLast of new dummies for the rest,
\* registered one under the other but not under oldLast.
segmentResources(S, rb, pss) == SegmentLoop(S, pss, 1, rb, NIL, NIL)

\* The path "/": splitPathSegments returns root = true for it.  (A path such
\* as /%2F is not the root path: it has the one segment "/".)
RootPath == <<NoTmpl>>

\* pathSegmentResources; the path is already split into segment templates.
pathSegmentResources(S, rb, path) ==
    IF path = RootPath
    THEN IF rb = Host THEN SegRes(S, rb, NIL, NIL, ErrNil)
         ELSE SegRes(S, NIL, NIL, NIL, ErrNonRouterParent)
    ELSE segmentResources(S, rb, path)

\* The end of registerResourceUnder with new prefix resources: r1 is what
\* newLast.registerResource(r) returned.
UnderRegistered(r1, sr) ==
    IF r1.err # ErrNil THEN r1 ELSE registerResource(r1.S, sr.oldLast, sr.newFirst)

\* registerResourceUnder after pathSegmentResources returned sr.  An error
\* met while only new dummies were touched leaves the tree as it was (the
\* dummies are dropped).
UnderSegments(S, sr, r, ord) ==
    IF sr.err # ErrNil THEN Fail(S, sr.err)
    ELSE IF sr.newFirst # NIL
    THEN IF checkNamesOfTheChildrenAreUniqueInTheURL(sr.S, sr.newLast, r, ord, Fuel) # ErrNil
         THEN Fail(S, checkNamesOfTheChildrenAreUniqueInTheURL(sr.S, sr.newLast, r, ord, Fuel))
         ELSE IF ChildResourceNamed(sr.S, sr.oldLast, sr.S.tmpl[sr.newFirst].name) # NIL
         THEN Fail(S, ErrDuplicateNameAmongSiblings)
         ELSE UnderRegistered(registerResource(sr.S, sr.newLast, r), sr)
    ELSE IF checkNamesOfTheChildrenAreUniqueInTheURL(S, sr.oldLast, r, ord, Fuel) # ErrNil
    THEN Fail(S, checkNamesOfTheChildrenAreUniqueInTheURL(S, sr.oldLast, r, ord, Fuel))
    ELSE keepResourceOrItsChildResources(S, sr.oldLast, r, ord, Fuel)

\* registerResourceUnder
registerResourceUnder(S, rb, prefixPath, r, ord) ==
    UnderSegments(S, pathSegmentResources(S, rb, prefixPath), r, ord)

\* The result of Resource and ResourceUsingConfig: the tree, the error and
\* the resource found or created.
Found(S, err, r) == [S |-> S, err |-> err, r |-> IF err = ErrNil THEN r ELSE NIL]

\* The end of Resource and ResourceUsingConfig when new resources were
\* created: cc is what newLast.configCompatibility returned.
ResourceCreated(S, sr, cc) ==
    IF cc.err # ErrNil THEN Found(S, cc.err, NIL)
    ELSE IF ChildResourceNamed(cc.S, sr.oldLast, cc.S.tmpl[sr.newFirst].name) # NIL
    THEN Found(S, ErrDuplicateNameAmongSiblings, NIL)
    ELSE Found(registerResource(cc.S, sr.oldLast, sr.newFirst).S,
               registerResource(cc.S, sr.oldLast, sr.newFirst).err, sr.newLast)

\* The part of Resource and ResourceUsingConfig after pathSegmentResources
\* returned sr.  When no segment led below a host, oldLast is the host and
\* the type assertion oldLast.(*Resource) panics, after the host was checked
\* or configured.
ResourceOf(S, sr, secure, tslash, argCfs) ==
    IF sr.err # ErrNil THEN Found(S, sr.err, NIL)
    ELSE IF sr.newFirst # NIL
    THEN ResourceCreated(S, sr, configCompatibility(sr.S, sr.newLast, secure, tslash, argCfs))
    ELSE IF sr.oldLast = Host
            /\ configCompatibility(S, sr.oldLast, secure, tslash, argCfs).err = ErrNil
    THEN Found(configCompatibility(S, sr.oldLast, secure, tslash, argCfs).S, Panic, NIL)
    ELSE Found(configCompatibility(S, sr.oldLast, secure, tslash, argCfs).S,
               configCompatibility(S, sr.oldLast, secure, tslash, argCfs).err, sr.oldLast)

\* Resource and ResourceUsingConfig after the path template is split: secure
\* and tslash come from the scheme and the trailing slash of the template,
\* argCfs is NilCfs for Resource and config.asFlags() for ResourceUsingConfig.
ResourceAt(S, rb, path, secure, tslash, argCfs) ==
    ResourceOf(S, pathSegmentResources(S, rb, path), secure, tslash, argCfs)

\* A conversion of a config that sets the redirect flag alone.
asFlagsRedirectAlone(config) == config

\* Config.asFlags for the RedirectInsecureRequest property: it sets the
\* secure flag too.
asFlags(config) ==
    config \cup (IF flagRedirectInsecure \in config THEN {flagSecure} ELSE {})

\* Resource with a path template without a host: path is the sequence of its
\* segment templates, secure and tslash what splitHostAndPath returns.
Resource(S, rb, path, secure, tslash) ==
    ResourceAt(S, rb, path, secure, tslash, NilCfs)

\* ResourceUsingConfig with a path template without a host.
ResourceUsingConfig(S, rb, path, secure, tslash, config) ==
    IF flagRedirectInsecure \in config /\ ~secure
    THEN [S |-> S, err |-> ErrConflictingSecurity, r |-> NIL]
    ELSE ResourceAt(S, rb, path, secure, tslash, asFlags(config))

\* The checks RegisterResource and RegisterResourceUnder begin with: the
\* error they return, or ErrNil.
RegisterChecks(S, rb, r, ord) ==
    IF IsRootTmpl(S.tmpl[r]) THEN ErrNonRouterParent
    ELSE IF S.papa[r] # NIL THEN ErrRegisteredResource
    ELSE IF validate(S, rb, S.tmpl[r]) # ErrNil THEN validate(S, rb, S.tmpl[r])
    ELSE checkNamesOfTheChildrenAreUniqueInTheURL(S, rb, r, ord, Fuel)

\* RegisterResource of a resource without a URL template.
RegisterResource(S, rb, r, ord) ==
    IF RegisterChecks(S, rb, r, ord) # ErrNil THEN Fail(S, RegisterChecks(S, rb, r, ord))
    ELSE keepResourceOrItsChildResources(S, rb, r, ord, Fuel)

\* RegisterResourceUnder of a resource without a URL template; prefixPath is
\* <<>> for "", RootPath for "/", else the sequence of its segment templates.
RegisterResourceUnder(S, rb, prefixPath, r, ord) ==
    IF RegisterChecks(S, rb, r, ord) # ErrNil THEN Fail(S, RegisterChecks(S, rb, r, ord))
    ELSE IF prefixPath = RootPath /\ rb # Host THEN Fail(S, ErrNonRouterParent)
    ELSE IF prefixPath # RootPath /\ prefixPath # <<>>
    THEN registerResourceUnder(S, rb, prefixPath, r, ord)
    ELSE keepResourceOrItsChildResources(S, rb, r, ord, Fuel)

\* Configure: the flags become flagActive and the flags of the config.
Configure(S, n, config) ==
    Ok([S EXCEPT !.cfs[n] = {flagActive} \cup asFlags(config)])

RECURSIVE TraverseAndConfigure(_, _, _, _, _)
\* traverseAndCall with Configure: the responders of the queue are configured
\* one after the other and the children of each are queued behind them.
TraverseAndConfigure(S, queue, config, ord, fuel) ==
    IF queue = <<>> THEN Ok(S)
    ELSE IF fuel = 0 THEN Fail(S, Diverge)
    ELSE TraverseAndConfigure(Configure(S, Head(queue), config).S,
                              Tail(queue) \o ChildResources(S, Head(queue), ord),
                              config, ord, fuel - 1)

\* ConfigureSubtree: every resource below rb is configured with the config.
ConfigureSubtree(S, rb, config, ord) ==
    TraverseAndConfigure(S, ChildResources(S, rb, ord), config, ord, Fuel)

\* ------------------------------------------------------------------ dispatch

slash == "/"

percent == "%"

\* Args: the path of the request's URL (RawPath when raw, else Path; the path
\* is never cleaned in the model), the index of the next segment, and the
\* routing flags; r is the responder the request was passed to last.
Args(path, raw, idx, subtreeExists, handled) ==
    [path |-> path, raw |-> raw, currentPathSegmentIdx |-> idx,
     subtreeExists |-> subtreeExists, handled |-> handled, r |-> NIL]

NoArgs == Args(<<>>, FALSE, 0, FALSE, FALSE)

\* strings.IndexByte(str[from:], '/') or -1.
IndexOfSlash(str, from) ==
    LET is == {i \in from + 1..Len(str) : str[i] = slash}
    IN IF is = {} THEN -1
       ELSE (CHOOSE i \in is : \A j \in is : i <= j) - 1 - from

IsHex(c) ==
    c \in {"0", "1", "2", "3", "4", "5", "6", "7", "8", "9",
           "a", "b", "c", "d", "e", "f", "A", "B", "C", "D", "E", "F"}

\* The byte an escape %h1h2 stands for: "/" for %2F and %2f; the requests of
\* the model have no other valid escape ("?" stands for any other byte).
HexByte(h1, h2) == IF h1 = "2" /\ h2 \in {"F", "f"} THEN slash ELSE "?"

RECURSIVE Unescaped(_)
\* The segment with every escape replaced by its byte.
Unescaped(seg) ==
    IF seg = <<>> THEN <<>>
    ELSE IF seg[1] = percent
    THEN <<HexByte(seg[2], seg[3])>> \o Unescaped(SubSeq(seg, 4, Len(seg)))
    ELSE <<seg[1]>> \o Unescaped(Tail(seg))

\* An unescaping that leaves the segment as it is.
PathUnescapeKeepsTheEscapes(seg) == [s |-> seg, err |-> FALSE]

\* url.PathUnescape: it fails on a "%" that two hex digits do not follow, and
\* returns the empty string then.
PathUnescape(seg) ==
    IF \A i \in 1..Len(seg) :
           seg[i] = percent => i + 2 <= Len(seg) /\ IsHex(seg[i + 1]) /\ IsHex(seg[i + 2])
    THEN [s |-> Unescaped(seg), err |-> FALSE]
    ELSE [s |-> <<>>, err |-> TRUE]

\* A nextPathSegment that moves the index up to the next slash, not past it.
nextPathSegmentUpToTheSlash(a) ==
    LET lpath == Len(a.path)
        cIdx == a.currentPathSegmentIdx
    IN IF cIdx = lpath THEN [ps |-> <<>>, err |-> FALSE, args |-> a]
       ELSE IF cIdx = 0
       THEN [ps |-> <<slash>>, err |-> FALSE,
             args |-> [a EXCEPT !.currentPathSegmentIdx = 1]]
       ELSE LET i == IndexOfSlash(a.path, cIdx)
                idx == IF i + cIdx < cIdx THEN lpath ELSE i + cIdx
                seg == SubSeq(a.path, cIdx + 1, idx)
            IN [ps |-> IF a.raw THEN PathUnescape(seg).s ELSE seg,
                err |-> a.raw /\ PathUnescape(seg).err,
                args |-> [a EXCEPT !.currentPathSegmentIdx = idx]]

\* Args.nextPathSegment: the segment, whether unescaping failed, and the args
\* with the index moved on.
nextPathSegment(a) ==
    LET lpath == Len(a.path)
        cIdx == a.currentPathSegmentIdx
    IN IF cIdx = lpath THEN [ps |-> <<>>, err |-> FALSE, args |-> a]
       ELSE IF cIdx = 0
       THEN [ps |-> <<slash>>, err |-> FALSE,
             args |-> [a EXCEPT !.currentPathSegmentIdx = 1]]
       ELSE LET i == IndexOfSlash(a.path, cIdx)
                idx == IF i + cIdx < cIdx THEN lpath ELSE i + cIdx
                next == IF i + cIdx < cIdx THEN lpath ELSE cIdx + i + 1
                seg == SubSeq(a.path, cIdx + 1, idx)
            IN [ps |-> IF a.raw THEN PathUnescape(seg).s ELSE seg,
                err |-> a.raw /\ PathUnescape(seg).err,
                args |-> [a EXCEPT !.currentPathSegmentIdx = next]]

\* What a call of passRequestToChildResource did: the args it left, the
\* children whose segment handler it invoked, how often it invoked the
\* not-found handler and how often it answered 400, and what it returned.
Passed(a, invoked, notFound, badRequest, ret) ==
    [args |-> a, invoked |-> invoked, notFound |-> notFound,
     badRequest |-> badRequest, ret |-> ret]

\* No request has been passed on yet.
NoTrace == [rb |-> NIL, before |-> NoArgs, seg |-> nextPathSegment(NoArgs),
            invoked |-> <<>>, notFound |-> 0, badRequest |-> 0, ret |-> FALSE]

\* The first pattern child of rb from i on whose template matches ps, or NIL.
RECURSIVE MatchingPattern(_, _, _, _)
MatchingPattern(S, rb, ps, i) ==
    IF i > Len(S.patternResources[rb]) THEN NIL
    ELSE IF Match(S.tmpl[S.patternResources[rb][i]], ps).matched
    THEN S.patternResources[rb][i]
    ELSE MatchingPattern(S, rb, ps, i + 1)

\* A pass to the child that leaves the index where nextPathSegment put it.
PassToKeepingTheIndex(a0, a, child, h) ==
    LET a1 == [a EXCEPT !.r = child, !.handled = h]
    IN Passed(a1, <<child>>, 0, 0, a1.handled)

\* A pass to the child that falls back to the not-found handler when the
\* child leaves the request unhandled.
PassToThenNotFound(a0, a, child, h) ==
    LET a1 == [a EXCEPT !.r = child, !.handled = TRUE,
                        !.currentPathSegmentIdx = a0.currentPathSegmentIdx]
    IN Passed(a1, <<child>>, IF h THEN 0 ELSE 1, 0, TRUE)

\* The child's segmentHandler: the child becomes args._r and the handler
\* leaves args.handled as h; the index is restored afterwards.
PassTo(a0, a, child, h) ==
    LET a1 == [a EXCEPT !.r = child, !.handled = h,
                        !.currentPathSegmentIdx = a0.currentPathSegmentIdx]
    IN Passed(a1, <<child>>, 0, 0, a1.handled)

\* A dispatch that tries the wildcard child before the pattern children.
passRequestToChildResourceWildcardFirst(S, rb, a, h) ==
    LET nps == nextPathSegment(a)
        ps == nps.ps
        restore(x) == [x EXCEPT !.currentPathSegmentIdx = a.currentPathSegmentIdx]
    IN IF nps.err
       THEN Passed(restore([nps.args EXCEPT !.handled = TRUE]), <<>>, 0, 1, TRUE)
       ELSE IF Len(ps) > 0 /\ ps \in DOMAIN S.staticResources[rb]
       THEN PassTo(a, nps.args, S.staticResources[rb][ps], h)
       ELSE IF Len(ps) > 0 /\ S.wildcardResource[rb] # NIL
       THEN PassTo(a, nps.args, S.wildcardResource[rb], h)
       ELSE IF Len(ps) > 0 /\ MatchingPattern(S, rb, ps, 1) # NIL
       THEN PassTo(a, nps.args, MatchingPattern(S, rb, ps, 1), h)
       ELSE IF a.subtreeExists
       THEN Passed(restore(nps.args), <<>>, 0, 0, FALSE)
       ELSE Passed(restore([nps.args EXCEPT !.handled = TRUE]), <<>>, 1, 0, TRUE)

\* A dispatch that answers not-found whether or not a subtree handler exists.
passRequestToChildResourceAlwaysNotFound(S, rb, a, h) ==
    LET nps == nextPathSegment(a)
        ps == nps.ps
        restore(x) == [x EXCEPT !.currentPathSegmentIdx = a.currentPathSegmentIdx]
    IN IF nps.err
       THEN Passed(restore([nps.args EXCEPT !.handled = TRUE]), <<>>, 0, 1, TRUE)
       ELSE IF Len(ps) > 0 /\ ps \in DOMAIN S.staticResources[rb]
       THEN PassTo(a, nps.args, S.staticResources[rb][ps], h)
       ELSE IF Len(ps) > 0 /\ MatchingPattern(S, rb, ps, 1) # NIL
       THEN PassTo(a, nps.args, MatchingPattern(S, rb, ps, 1), h)
       ELSE IF Len(ps) > 0 /\ S.wildcardResource[rb] # NIL
       THEN PassTo(a, nps.args, S.wildcardResource[rb], h)
       ELSE Passed(restore([nps.args EXCEPT !.handled = TRUE]), <<>>, 1, 0, TRUE)

\* passRequestToChildResource of the node rb with the args a; h is what the
\* segment handler of the child leaves in args.handled.
passRequestToChildResource(S, rb, a, h) ==
    LET nps == nextPathSegment(a)
        ps == nps.ps
        restore(x) == [x EXCEPT !.currentPathSegmentIdx = a.currentPathSegmentIdx]
    IN IF nps.err
       THEN Passed(restore([nps.args EXCEPT !.handled = TRUE]), <<>>, 0, 1, TRUE)
       ELSE IF Len(ps) > 0 /\ ps \in DOMAIN S.staticResources[rb]
       THEN PassTo(a, nps.args, S.staticResources[rb][ps], h)
       ELSE IF Len(ps) > 0 /\ MatchingPattern(S, rb, ps, 1) # NIL
       THEN PassTo(a, nps.args, MatchingPattern(S, rb, ps, 1), h)
       ELSE IF Len(ps) > 0 /\ S.wildcardResource[rb] # NIL
       THEN PassTo(a, nps.args, S.wildcardResource[rb], h)
       ELSE IF a.subtreeExists
       THEN Passed(restore(nps.args), <<>>, 0, 0, FALSE)
       ELSE Passed(restore([nps.args EXCEPT !.handled = TRUE]), <<>>, 1, 0, TRUE)

\* ------------------------------------------------------------------ inputs

users == <<"u", "s", "e", "r", "s">>

accounts == <<"a", "c", "c", "o", "u", "n", "t", "s">>

\* The templates the callers use, as parsing returns them:
\*   users, accounts, $u:users, $u:accounts, {id}, $x:{id:^[a]+$}
tUsers == Template("", <<StaticSlice(users)>>, -1)

tAccounts == Template("", <<StaticSlice(accounts)>>, -1)

tUUsers == Template("u", <<StaticSlice(users)>>, -1)

tUAccounts == Template("u", <<StaticSlice(accounts)>>, -1)

tId == Template("id", <<DynamicSlice("id", NoRe)>>, 0)

tXId == Template("x", <<DynamicSlice("id", Regex({"a"}, TRUE, TRUE))>>, -1)

tHost == Template("", <<StaticSlice(<<"h">>)>>, -1)

\* The resources the caller constructs before registering them: template,
\* whether a method handler is set, config flags.
Kinds ==
    << [tmpl |-> tUsers, mh |-> FALSE, cfs |-> {}],
       [tmpl |-> tUsers, mh |-> TRUE, cfs |-> {}],
       [tmpl |-> tUsers, mh |-> TRUE, cfs |-> {flagActive, flagSecure}],
       [tmpl |-> tAccounts, mh |-> FALSE, cfs |-> {}],
       [tmpl |-> tUAccounts, mh |-> TRUE, cfs |-> {}],
       [tmpl |-> tXId, mh |-> TRUE, cfs |-> {}] >>

\* The path templates the callers use, split into their segment templates:
\*   /users/accounts, /$u:users/{id}, /$u:accounts
Paths == {<<tUsers, tAccounts>>, <<tUUsers, tId>>, <<tUAccounts>>}

\* The configs handed to ResourceUsingConfig.
Configs == {{flagRedirectInsecure}}

\* The prefix paths handed to RegisterResourceUnder: "", "/", /users, /$u:users
PrefixPaths == {<<>>, RootPath, <<tUsers>>, <<tUUsers>>}

\* The orders in which a range over a static map may yield its keys.
Orders == {<<users, accounts>>, <<accounts, users>>}

\* The orders that can make a difference in the tree S: one order stands for
\* all when no map holds two keys.
OrdersOf(S) ==
    IF \E n \in Nodes : Cardinality(DOMAIN S.staticResources[n]) > 1
    THEN Orders ELSE {<<users, accounts>>}

\* ------------------------------------------------------------------ state

\* The tree (tmpl .. cfs), the last call and the number of calls, the Args of
\* the request dispatched last and what the dispatch did, the Args objects
\* in the pool, the requests in flight, and the handlers of the responders.
VARIABLES tmpl, mh, papa, staticResources, patternResources, wildcardResource,
          cfs, last, calls, args, trace, argsPool, requests, handlers

vars == <<tmpl, mh, papa, staticResources, patternResources, wildcardResource,
          cfs, last, calls, args, trace, argsPool, requests, handlers>>

\* The segment handler, the request handler and the handlers of the HTTP
\* methods of every responder, each the sequence of the middlewares it was
\* wrapped with, the innermost first; <<>> is the handler the responder was
\* constructed with.
NoHandlers ==
    [segmentHandler |-> [n \in Nodes |-> <<>>], requestHandler |-> [n \in Nodes |-> <<>>],
     handlerOf |-> [n \in Nodes |-> <<>>]]

\* The tree as one record.
Tree ==
    [tmpl |-> tmpl, mh |-> mh, papa |-> papa, staticResources |-> staticResources,
     patternResources |-> patternResources, wildcardResource |-> wildcardResource,
     cfs |-> cfs]

\* The nodes that exist.
Live(S) == {n \in Nodes : S.tmpl[n] # NoTmpl}

\* The last call that changed the tree: the operation, the error it returned
\* and which branch of keepResourceOrItsChildResources it took at the point
\* of attachment ("new", "merged", "replaced", or "none"); allNil tells that
\* every call that changed the tree so far returned nil.
Call(op, err, branch) ==
    [op |-> op, err |-> err, branch |-> branch, allNil |-> last.allNil /\ err = ErrNil]

\* The callers call the operations on the host and on the resources they
\* constructed, and register the resources they constructed.
Receivers(S) == {Host} \cup PoolNodes

Arguments(S) == PoolNodes

\* The branch keepResourceOrItsChildResources takes for r under rb.
Branch(S, rb, r) ==
    LET found == resourceWithTemplate(S, rb, S.tmpl[r])
    IN IF found.err # ErrNil THEN "none"
       ELSE IF found.r = NIL THEN "new"
       ELSE IF ~canHandleRequest(S, r) THEN "merged"
       ELSE IF ~canHandleRequest(S, found.r) THEN "replaced"
       ELSE "none"

Init ==
    \E k \in [PoolNodes -> 1..Len(Kinds)] :
        /\ \A i, j \in PoolNodes : i <= j => k[i] <= k[j]
        /\ tmpl = [n \in Nodes |-> IF n = Host THEN tHost
                                   ELSE IF n \in PoolNodes THEN Kinds[k[n]].tmpl
                                   ELSE NoTmpl]
        /\ mh = [n \in Nodes |-> IF n \in PoolNodes THEN Kinds[k[n]].mh ELSE n = Host]
        /\ cfs = [n \in Nodes |-> IF n \in PoolNodes THEN Kinds[k[n]].cfs ELSE {}]
        /\ papa = [n \in Nodes |-> NIL]
        /\ staticResources = [n \in Nodes |-> EmptyMap]
        /\ patternResources = [n \in Nodes |-> <<>>]
        /\ wildcardResource = [n \in Nodes |-> NIL]
        /\ last = [op |-> "none", err |-> ErrNil, branch |-> "none", allNil |-> TRUE]
        /\ calls = 0
        /\ args = NoArgs
        /\ trace = NoTrace
        /\ argsPool = {}
        /\ requests = <<>>
        /\ handlers = NoHandlers

\* The call returned res: the tree is what the call left, and a call that
\* changed the tree is remembered.  A call that never returns has no next
\* state.
Returns(res, call) ==
    /\ res.err \notin {Diverge, OutOfNodes}
    /\ calls' = IF res.S = Tree THEN calls ELSE calls + 1
    /\ calls' <= MaxCalls
    /\ tmpl' = res.S.tmpl
    /\ mh' = res.S.mh
    /\ papa' = res.S.papa
    /\ staticResources' = res.S.staticResources
    /\ patternResources' = res.S.patternResources
    /\ wildcardResource' = res.S.wildcardResource
    /\ cfs' = res.S.cfs
    /\ last' = IF res.S = Tree THEN last ELSE call
    /\ UNCHANGED <<args, trace, argsPool, requests, handlers>>

DoRegisterResource ==
    \E rb \in Receivers(Tree), r \in Arguments(Tree), ord \in OrdersOf(Tree) :
        LET res == RegisterResource(Tree, rb, r, ord)
        IN Returns(res, Call("RegisterResource", res.err, Branch(Tree, rb, r)))

DoRegisterResourceUnder ==
    \E rb \in Receivers(Tree), r \in Arguments(Tree), ord \in OrdersOf(Tree),
       prefixPath \in PrefixPaths :
        LET res == RegisterResourceUnder(Tree, rb, prefixPath, r, ord)
        IN Returns(res, Call("RegisterResourceUnder", res.err, "none"))

\* The path operations are called on the host; the templates are http
\* templates without a trailing slash for Resource, http and https ones for
\* ResourceUsingConfig.
DoResource ==
    \E rb \in {Host}, path \in Paths :
        LET res == Resource(Tree, rb, path, FALSE, FALSE)
        IN Returns(res, Call("Resource", res.err, "none"))

DoResourceUsingConfig ==
    \E rb \in {Host}, path \in Paths, secure \in BOOLEAN,
       config \in Configs :
        LET res == ResourceUsingConfig(Tree, rb, path, secure, FALSE, config)
        IN Returns(res, Call("ResourceUsingConfig", res.err, "none"))

Next ==
    \/ DoRegisterResource
    \/ DoRegisterResourceUnder
    \/ DoResource
    \/ DoResourceUsingConfig

Spec == Init /\ [][Next]_vars

\* ------------------------------------------------------------------ dispatch runs

\* The children registered under the host before requests are dispatched:
\*   users, $x:{id:^[a]+$}, $y:{n:^[ab]+$}, {id}
tYN == Template("y", <<DynamicSlice("n", Regex({"a", "b"}, TRUE, TRUE))>>, -1)

Children == <<tUsers, tXId, tYN, tId>>

\* The sequences of distinct children: the orders of registration.
ChildOrders ==
    {q \in UNION {[1..n -> 1..Len(Children)] : n \in 0..Len(Children)} :
        \A i, j \in DOMAIN q : i # j => q[i] # q[j]}

\* The resources, before they are registered: node i has the i-th template.
Unregistered ==
    [tmpl |-> [n \in Nodes |-> IF n = Host THEN tHost
                               ELSE IF n <= Len(Children) THEN Children[n]
                               ELSE NoTmpl],
     mh |-> [n \in Nodes |-> n = Host \/ n <= Len(Children)],
     papa |-> [n \in Nodes |-> NIL],
     staticResources |-> [n \in Nodes |-> EmptyMap],
     patternResources |-> [n \in Nodes |-> <<>>],
     wildcardResource |-> [n \in Nodes |-> NIL],
     cfs |-> [n \in Nodes |-> {}]]

RECURSIVE RegisterAll(_, _, _)
\* The tree after Host.RegisterResource of the resources q[i], q[i + 1], ...
RegisterAll(S, q, i) ==
    IF i > Len(q) THEN S
    ELSE RegisterAll(RegisterResource(S, Host, q[i], <<users, accounts>>).S, q, i + 1)

\* The request paths and whether they are the raw (escaped) form:
\*   /users  /aa  /ab  /c  /%  (raw)  /users/aa
RequestPaths ==
    { [path |-> <<slash>> \o users, raw |-> FALSE],
      [path |-> <<slash, "a", "a">>, raw |-> FALSE],
      [path |-> <<slash, "a", "b">>, raw |-> FALSE],
      [path |-> <<slash, "c">>, raw |-> FALSE],
      [path |-> <<slash, percent>>, raw |-> TRUE],
      [path |-> <<slash>> \o users \o <<slash, "a", "a">>, raw |-> FALSE] }

\* The indexes a segment can start at: 0, behind a slash, and the end.
SegmentStarts(path) ==
    {0, Len(path)} \cup {i \in 1..Len(path) : path[i] = slash}

InitDispatch ==
    \E q \in ChildOrders :
        /\ tmpl = RegisterAll(Unregistered, q, 1).tmpl
        /\ mh = RegisterAll(Unregistered, q, 1).mh
        /\ papa = RegisterAll(Unregistered, q, 1).papa
        /\ staticResources = RegisterAll(Unregistered, q, 1).staticResources
        /\ patternResources = RegisterAll(Unregistered, q, 1).patternResources
        /\ wildcardResource = RegisterAll(Unregistered, q, 1).wildcardResource
        /\ cfs = RegisterAll(Unregistered, q, 1).cfs
        /\ last = [op |-> "none", err |-> ErrNil, branch |-> "none", allNil |-> TRUE]
        /\ calls = 0
        /\ args = NoArgs
        /\ trace = NoTrace
        /\ argsPool = {}
        /\ requests = <<>>
        /\ handlers = NoHandlers

\* A request reaches the node rb, which passes it on.
DoPassRequestToChildResource ==
    \E rb \in {Host, 1}, p \in RequestPaths, subtreeExists \in BOOLEAN,
       handled \in BOOLEAN, h \in BOOLEAN :
        \E idx \in SegmentStarts(p.path) :
            LET a == Args(p.path, p.raw, idx, subtreeExists, handled)
                res == passRequestToChildResource(Tree, rb, a, h)
            IN /\ args' = res.args
               /\ trace' = [rb |-> rb, before |-> a, seg |-> nextPathSegment(a),
                            invoked |-> res.invoked, notFound |-> res.notFound,
                            badRequest |-> res.badRequest, ret |-> res.ret]
               /\ UNCHANGED <<tmpl, mh, papa, staticResources, patternResources,
                              wildcardResource, cfs, last, calls, argsPool, requests, handlers>>

NextDispatch == DoPassRequestToChildResource

SpecDispatch == InitDispatch /\ [][NextDispatch]_vars

\* ------------------------------------------------------------------ properties

\* The nodes reached from n by one or more parent links.
ProperAncestors(S, n) ==
    LET F[i \in 0..Cardinality(Nodes)] ==
            IF i = 0 THEN {S.papa[n]} \ {NIL}
            ELSE F[i - 1] \cup ({S.papa[a] : a \in F[i - 1]} \ {NIL})
    IN F[Cardinality(Nodes)]

\* The nodes reached from n by one or more child links.
Descendants(S, n) ==
    LET F[i \in 0..Cardinality(Nodes)] ==
            IF i = 0 THEN ChildSet(S, n)
            ELSE F[i - 1] \cup UNION {ChildSet(S, c) : c \in F[i - 1]}
    IN F[Cardinality(Nodes)]

\* The nodes that hold n in one of their child buckets.
Holders(S, n) == {p \in Nodes : n \in ChildSet(S, p)}

\* C1: after successful registrations, for every node n no proper ancestor of
\* n (up to and including the host) has n's non-empty name, and none shares a
\* value name with n's template.
C1_NamesUniqueInTheURL ==
    last.allNil =>
        \A n \in Live(Tree) : \A a \in ProperAncestors(Tree, n) :
            /\ tmpl[n].name # "" => tmpl[a].name # tmpl[n].name
            /\ ValueNames(tmpl[a]) \cap ValueNames(tmpl[n]) = {}

\* C2: a RegisterResource or RegisterResourceUnder call that returns an error
\* leaves the tree (child buckets, parent links, config flags) as it was.
C2_ErrorLeavesTheTreeUnchanged ==
    \A rb \in Receivers(Tree), r \in Arguments(Tree), ord \in OrdersOf(Tree) :
        /\ LET res == RegisterResource(Tree, rb, r, ord)
           IN res.err \notin {ErrNil, Diverge, OutOfNodes} => res.S = Tree
        /\ \A prefixPath \in PrefixPaths :
            LET res == RegisterResourceUnder(Tree, rb, prefixPath, r, ord)
            IN res.err \notin {ErrNil, Diverge, OutOfNodes} => res.S = Tree

\* C3: the parent links never form a cycle: no node is its own ancestor.
C3_ParentLinksFormATree ==
    \A n \in Live(Tree) : n \notin ProperAncestors(Tree, n)

\* C4: every node is in the child buckets of at most one node, and it is in
\* the buckets of p iff its parent link is p.
C4_OneParentAndLinksAgree ==
    \A n \in Live(Tree) \ {Host} :
        /\ Cardinality(Holders(Tree, n)) <= 1
        /\ \A p \in Nodes : n \in ChildSet(Tree, p) <=> papa[n] = p

\* The child of rb whose template is TheSame as r's, or NIL.
Rwt(S, rb, r) ==
    LET found == resourceWithTemplate(S, rb, S.tmpl[r])
    IN IF found.err = ErrNil THEN found.r ELSE NIL

\* The config of r is compatible with the one of the node n.
ConfigsCompatible(S, n, r) ==
    configCompatibility(S, n, Has(S.cfs[r], {flagSecure}),
                        Has(S.cfs[r], {flagTrailingSlash}), S.cfs[r]).err = ErrNil

\* The children of n whose template is TheSame as t.
ChildrenWithTemplate(S, n, t) ==
    {c \in ChildSet(S, n) : SimilarityWith(S.tmpl[c], t) = TheSame}

\* rb.RegisterResource(r) returns nil where rb has a handler-less child with
\* r's template, r has a handler and the configs are compatible.
ReplaceCase(S, rb, r, ord) ==
    /\ Rwt(S, rb, r) # NIL
    /\ canHandleRequest(S, r)
    /\ ~canHandleRequest(S, Rwt(S, rb, r))
    /\ ConfigsCompatible(S, Rwt(S, rb, r), r)
    /\ RegisterResource(S, rb, r, ord).err = ErrNil

\* rb.RegisterResource(r) returns nil where rb has a child with r's template,
\* r has no handler and the configs are compatible.
MergeCase(S, rb, r, ord) ==
    /\ Rwt(S, rb, r) # NIL
    /\ ~canHandleRequest(S, r)
    /\ ConfigsCompatible(S, Rwt(S, rb, r), r)
    /\ RegisterResource(S, rb, r, ord).err = ErrNil

\* C5: after r with a handler is registered where the child rwt of rb has r's
\* template and no handler, rb has exactly one child with that template, it
\* is r with parent rb, rwt has no parent and no children, and every former
\* child of rwt is in r's subtree.
C5_Replace ==
    \A rb \in Receivers(Tree), r \in Arguments(Tree), ord \in OrdersOf(Tree) :
        ReplaceCase(Tree, rb, r, ord) =>
            LET rwt == Rwt(Tree, rb, r)
                T == RegisterResource(Tree, rb, r, ord).S
            IN /\ ChildrenWithTemplate(T, rb, tmpl[r]) = {r}
               /\ T.papa[r] = rb
               /\ T.papa[rwt] = NIL
               /\ ChildSet(T, rwt) = {}
               /\ ChildSet(Tree, rwt) \subseteq Descendants(T, r)

\* C6: after r without a handler is registered where the child rwt of rb has
\* r's template, rwt is still rb's child, r is not attached and has no
\* children, and every former child c of r is a child of rwt, unless rwt had
\* a child with c's template: then that child stays and c, having no
\* handler, is merged into it the same way, or c takes its place.
C6_Merge ==
    \A rb \in Receivers(Tree), r \in Arguments(Tree), ord \in OrdersOf(Tree) :
        MergeCase(Tree, rb, r, ord) =>
            LET rwt == Rwt(Tree, rb, r)
                T == RegisterResource(Tree, rb, r, ord).S
            IN /\ rwt \in ChildSet(T, rb) /\ T.papa[rwt] = rb
               /\ Holders(T, r) = {} /\ T.papa[r] = NIL
               /\ ChildSet(T, r) = {}
               /\ \A c \in ChildSet(Tree, r) :
                    \/ c \in ChildSet(T, rwt) /\ T.papa[c] = rwt
                    \/ /\ ~canHandleRequest(Tree, c)
                       /\ Rwt(Tree, rwt, c) \in ChildSet(T, rwt)
                       /\ Holders(T, c) = {} /\ ChildSet(T, c) = {}

\* r is not registered and the name checks of rb.RegisterResource(r) pass.
ChecksPass(S, rb, r, ord) ==
    /\ S.papa[r] = NIL
    /\ validate(S, rb, S.tmpl[r]) = ErrNil
    /\ checkNamesOfTheChildrenAreUniqueInTheURL(S, rb, r, ord, Fuel) = ErrNil

\* No node has two children with TheSame template that both have a handler.
NoTwoHandlingSiblingsWithTheSameTemplate ==
    \A p \in Live(Tree) : \A c, d \in ChildSet(Tree, p) :
        (/\ c # d
         /\ canHandleRequest(Tree, c)
         /\ canHandleRequest(Tree, d))
        => SimilarityWith(tmpl[c], tmpl[d]) # TheSame

Selected(S, rb, ps) ==
    LET ms == {i \in 1..Len(S.patternResources[rb]) :
                  Match(S.tmpl[S.patternResources[rb][i]], ps).matched}
    IN IF ps \in DOMAIN S.staticResources[rb] THEN S.staticResources[rb][ps]
       ELSE IF ms # {}
       THEN S.patternResources[rb][CHOOSE i \in ms : \A j \in ms : i <= j]
       ELSE S.wildcardResource[rb]

\* A request was passed on by a node and its next segment was well escaped.
PassedOn == trace.rb # NIL /\ ~trace.seg.err

\* C8: for a non-empty next segment the segment handler of exactly the child
\* selected in the order static, pattern (insertion order), wildcard is
\* invoked, and of no child when none is selected.
C8_DispatchOrder ==
    (PassedOn /\ trace.seg.ps # <<>>) =>
        LET sel == Selected(Tree, trace.rb, trace.seg.ps)
        IN /\ trace.invoked = IF sel = NIL THEN <<>> ELSE <<sel>>
           /\ sel # NIL => args.r = sel

\* The segment aa matches both pattern children of the host, which has a
\* wildcard child too, and the handler of the pattern child registered first
\* was invoked.
C8_Witness ==
    /\ PassedOn
    /\ trace.rb = Host
    /\ trace.seg.ps = <<"a", "a">>
    /\ Len(patternResources[Host]) = 2
    /\ tmpl[patternResources[Host][1]] = tYN
    /\ \A i \in 1..2 : Match(tmpl[patternResources[Host][i]], trace.seg.ps).matched
    /\ wildcardResource[Host] # NIL
    /\ trace.invoked = <<patternResources[Host][1]>>

\* C9: when no child is selected, or the segment is empty: if subtreeExists
\* is set the call returns false, leaves handled as it was and does not invoke
\* the not-found handler; otherwise it invokes the not-found handler once,
\* sets handled and returns true.
C9_NoChildMatches ==
    (PassedOn /\ (trace.seg.ps = <<>> \/ Selected(Tree, trace.rb, trace.seg.ps) = NIL)) =>
        /\ trace.invoked = <<>>
        /\ IF trace.before.subtreeExists
           THEN ~trace.ret /\ args.handled = trace.before.handled /\ trace.notFound = 0
           ELSE trace.ret /\ args.handled /\ trace.notFound = 1

\* The host has pattern children, none matches the segment c, there is no
\* wildcard child and subtreeExists is set: the call returned false, the
\* request is not handled and the not-found handler was not invoked.
C9_Witness ==
    /\ PassedOn
    /\ trace.rb = Host
    /\ trace.seg.ps = <<"c">>
    /\ Len(patternResources[Host]) = 2
    /\ wildcardResource[Host] = NIL
    /\ trace.before.subtreeExists /\ ~trace.before.handled
    /\ ~trace.ret /\ ~args.handled /\ trace.notFound = 0

\* The path /$u:users/{id} is registered under the host, no child of the host
\* has the content accounts, and a resource can still be created.
UsersIdRegistered(S) ==
    /\ users \in DOMAIN S.staticResources[Host]
    /\ S.tmpl[S.staticResources[Host][users]] = tUUsers
    /\ S.wildcardResource[S.staticResources[Host][users]] # NIL
    /\ S.tmpl[S.wildcardResource[S.staticResources[Host][users]]] = tId
    /\ accounts \notin DOMAIN S.staticResources[Host]
    /\ FreeDummies(S) # {}

\* C10 as the spec states it: with /$u:users/{id} registered under the host,
\* registering the path /$u:accounts returns ErrDuplicateNameInTheURL.
C10_DuplicateNameInTheURL ==
    UsersIdRegistered(Tree) =>
        Resource(Tree, Host, <<tUAccounts>>, FALSE, FALSE).err = ErrDuplicateNameInTheURL

\* C10, amended: with /$u:users/{id} registered under the host, Resource and
\* ResourceUsingConfig of the path /$u:accounts return
\* ErrDuplicateNameAmongSiblings and leave the tree as it was.
C10_DuplicateNameAmongSiblings ==
    UsersIdRegistered(Tree) =>
        /\ \A secure \in BOOLEAN :
              Resource(Tree, Host, <<tUAccounts>>, secure, FALSE)
                 = [S |-> Tree, err |-> ErrDuplicateNameAmongSiblings, r |-> NIL]
        /\ \A config \in Configs :
              ResourceUsingConfig(Tree, Host, <<tUAccounts>>, TRUE, FALSE, config)
                 = [S |-> Tree, err |-> ErrDuplicateNameAmongSiblings, r |-> NIL]

\* Resource has registered /$u:users/{id} under the host, and Resource of
\* /$u:accounts returns ErrDuplicateNameAmongSiblings.
C10_Witness ==
    /\ last.op = "Resource" /\ last.err = ErrNil
    /\ UsersIdRegistered(Tree)
    /\ Resource(Tree, Host, <<tUAccounts>>, FALSE, FALSE).err
          = ErrDuplicateNameAmongSiblings

\* C11: after successful registrations no node has two distinct children with
\* the same non-empty name.
C11_NamesUniqueAmongSiblings ==
    last.allNil =>
        \A p \in Live(Tree) : \A c, d \in ChildSet(Tree, p) :
            (c # d /\ tmpl[c].name # "") => tmpl[c].name # tmpl[d].name

\* ------------------------------------------------------------------ config runs

\* The flags a node can have when configCompatibility is called on it: none
\* (it was never configured) or flagActive with other flags.
NodeFlags ==
    {{}} \cup {{flagActive} \cup x :
                 x \in SUBSET {flagSecure, flagTrailingSlash, flagLeniencyOnTrailingSlash}}

\* The config flags handed to configCompatibility: nil or the flags of a config.
ConfigFlags ==
    {NilCfs} \cup SUBSET {flagSecure, flagTrailingSlash, flagLeniencyOnTrailingSlash}

\* One resource, users, with some flags.
InitCompat ==
    \E f \in NodeFlags :
        /\ tmpl = [n \in Nodes |-> IF n = Host THEN tHost
                                   ELSE IF n = 1 THEN tUsers ELSE NoTmpl]
        /\ mh = [n \in Nodes |-> n = Host]
        /\ cfs = [n \in Nodes |-> IF n = 1 THEN f ELSE {}]
        /\ papa = [n \in Nodes |-> NIL]
        /\ staticResources = [n \in Nodes |-> EmptyMap]
        /\ patternResources = [n \in Nodes |-> <<>>]
        /\ wildcardResource = [n \in Nodes |-> NIL]
        /\ last = [op |-> "none", err |-> ErrNil, branch |-> "none", allNil |-> TRUE]
        /\ calls = 0
        /\ args = NoArgs
        /\ trace = NoTrace
        /\ argsPool = {}
        /\ requests = <<>>
        /\ handlers = NoHandlers

\* configCompatibility is called on the resource; the call is remembered with
\* its arguments and the flags the node had before.
DoConfigCompatibility ==
    \E secure \in BOOLEAN, tslash \in BOOLEAN, argCfs \in ConfigFlags :
        /\ calls < MaxCalls
        /\ calls' = calls + 1
        /\ cfs' = configCompatibility(Tree, 1, secure, tslash, argCfs).S.cfs
        /\ last' = [op |-> "configCompatibility",
                    err |-> configCompatibility(Tree, 1, secure, tslash, argCfs).err,
                    branch |-> "none", allNil |-> FALSE,
                    n |-> 1, before |-> cfs[1],
                    secure |-> secure, tslash |-> tslash, cfs |-> argCfs]
        /\ UNCHANGED <<tmpl, mh, papa, staticResources, patternResources,
                       wildcardResource, args, trace, argsPool, requests, handlers>>

NextCompat == DoConfigCompatibility

SpecCompat == InitCompat /\ [][NextCompat]_vars

\* configCompatibility was called on a node whose active flag was set / not set.
CalledOnActive == last.op = "configCompatibility" /\ flagActive \in last.before

CalledOnInactive == last.op = "configCompatibility" /\ flagActive \notin last.before

\* C12: on an active node configCompatibility returns conflicting-security
\* when the secure flag differs from the request, else
\* conflicting-trailing-slash when the trailing slash flag differs and the
\* node is not lenient on it, else conflicting-config when a config is
\* supplied with a bit the node has not, else nil; the flags are unchanged.
C12_ActiveChecksInOrder ==
    CalledOnActive =>
        /\ cfs[last.n] = last.before
        /\ last.err =
              IF (flagSecure \in last.before) # last.secure
              THEN ErrConflictingSecurity
              ELSE IF flagLeniencyOnTrailingSlash \notin last.before
                      /\ (flagTrailingSlash \in last.before) # last.tslash
              THEN ErrConflictingTrailingSlash
              ELSE IF last.cfs # NilCfs /\ ~(last.cfs \subseteq last.before)
              THEN ErrConflictingConfig
              ELSE ErrNil

\* The call returned conflicting-trailing-slash where the supplied config had
\* a bit the node has not: the trailing slash is compared first.
C12_Witness ==
    /\ CalledOnActive
    /\ (flagSecure \in last.before) = last.secure
    /\ flagLeniencyOnTrailingSlash \notin last.before
    /\ (flagTrailingSlash \in last.before) # last.tslash
    /\ last.cfs # NilCfs /\ ~(last.cfs \subseteq last.before)
    /\ last.err = ErrConflictingTrailingSlash
    /\ cfs[last.n] = last.before

\* C13: on a node that is not active configCompatibility returns nil, sets
\* active, sets secure iff the request is secure, sets trailing slash iff the
\* request has one, sets every bit of the supplied config, and a second call
\* with the same arguments returns nil.
C13_InactiveIsConfigured ==
    CalledOnInactive =>
        /\ last.err = ErrNil
        /\ flagActive \in cfs[last.n]
        /\ (flagSecure \in cfs[last.n]) <=> last.secure
        /\ (flagTrailingSlash \in cfs[last.n]) <=> last.tslash
        /\ last.cfs # NilCfs => last.cfs \subseteq cfs[last.n]
        /\ configCompatibility(Tree, last.n, last.secure, last.tslash, last.cfs).err
              = ErrNil

\* ------------------------------------------------------------------ configuring runs

\* The configs handed to Configure, ConfigureSubtree and ResourceUsingConfig:
\* RedirectInsecureRequest, SubtreeHandler.
ConfigsOf == {{flagRedirectInsecure}, {flagSubtreeHandler}}

DoConfigure ==
    \E n \in Live(Tree), config \in ConfigsOf :
        Returns(Configure(Tree, n, config), Call("Configure", ErrNil, "none"))

DoConfigureSubtree ==
    \E rb \in Live(Tree), config \in ConfigsOf :
        Returns(ConfigureSubtree(Tree, rb, config, <<users, accounts>>),
                Call("ConfigureSubtree", ErrNil, "none"))

DoResourceUsingConfigOf ==
    \E path \in Paths, secure \in BOOLEAN, config \in ConfigsOf :
        Returns(ResourceUsingConfig(Tree, Host, path, secure, FALSE, config),
                Call("ResourceUsingConfig",
                     ResourceUsingConfig(Tree, Host, path, secure, FALSE, config).err,
                     "none"))

NextConfig ==
    \/ DoConfigure
    \/ DoConfigureSubtree
    \/ DoResourceUsingConfigOf
    \/ DoRegisterResource

SpecConfig == Init /\ [][NextConfig]_vars

\* C14: a node whose redirect-insecure flag is set has its secure flag set,
\* and ResourceUsingConfig with RedirectInsecureRequest and a template that is
\* not https returns ErrConflictingSecurity and creates no node.
C14_RedirectInsecureImpliesSecure ==
    /\ \A n \in Live(Tree) : flagRedirectInsecure \in cfs[n] => flagSecure \in cfs[n]
    /\ \A path \in Paths, tslash \in BOOLEAN, config \in ConfigsOf :
          flagRedirectInsecure \in config =>
              ResourceUsingConfig(Tree, Host, path, FALSE, tslash, config)
                 = [S |-> Tree, err |-> ErrConflictingSecurity, r |-> NIL]

\* ConfigureSubtree has set the redirect-insecure flag of a resource below the
\* host, and a path that is not registered yet is refused with the redirect
\* config when its template is not https.
C14_Witness ==
    /\ last.op = "ConfigureSubtree"
    /\ \E n \in Live(Tree) \ {Host} :
          /\ papa[n] # NIL
          /\ {flagRedirectInsecure, flagSecure} \subseteq cfs[n]
    /\ \E path \in Paths :
          /\ pathSegmentResources(Tree, Host, path).newFirst # NIL
          /\ ResourceUsingConfig(Tree, Host, path, FALSE, FALSE, {flagRedirectInsecure}).err
                = ErrConflictingSecurity

\* ------------------------------------------------------------------ root runs

\* The template of the path segment "/": what TryToParse returns for the
\* segment %2F after nextSegment has decoded it.
tRoot == Template("", <<StaticSlice(<<"/">>)>>, -1)

\* The path templates /%2F and /users/%2F, split into their segment templates.
SlashPaths == {<<tRoot>>, <<tUsers, tRoot>>}

\* Resource called on the host or on a resource with an http template without
\* a trailing slash.
DoResourceOfSlash ==
    \E rb \in Receivers(Tree), path \in Paths \cup SlashPaths :
        LET res == Resource(Tree, rb, path, FALSE, FALSE)
        IN Returns(res, Call("Resource", res.err, "none"))

NextRoot ==
    \/ DoResourceOfSlash
    \/ DoRegisterResource

SpecRoot == Init /\ [][NextRoot]_vars

\* C15: a root resource (template content "/") is never attached under a
\* host or a resource, and neither is a host: in every reachable tree no
\* host or resource is the parent of one, and none holds one as a child.
C15_RootIsNeverAttached ==
    \A r \in Live(Tree) :
        (r = Host \/ IsRootTmpl(tmpl[r])) =>
            /\ papa[r] = NIL
            /\ \A n \in Nodes : r \notin ChildSet(Tree, n)

\* ------------------------------------------------------------------ lookup runs

ErrEmptyPathSegmentTemplate == "ErrEmptyPathSegmentTemplate"

\* A path segment that is only a name, $name: templateNameAndContent returns
\* the name and an empty template string for it.
NameOnly(name) == Template(name, <<>>, -1)

RECURSIVE RegisteredLoop(_, _, _, _, _)
\* registeredResource after the segment pss[i] was looked up with the result r.
RegisteredStep(S, rb, pss, i, r) ==
    IF r = NIL THEN NoNode(ErrNil) ELSE RegisteredLoop(S, rb, pss, i + 1, r)

\* registeredResource after resourceWithTemplate returned found for pss[i].
RegisteredFound(S, rb, pss, i, found) ==
    IF found.err # ErrNil THEN found ELSE RegisteredStep(S, rb, pss, i, found.r)

\* The loop of registeredResource from segment i on; _r is the node the
\* segments before i led to (the receiver rb when i = 1).
RegisteredLoop(S, rb, pss, i, _r) ==
    IF i > Len(pss) THEN [r |-> IF i = 1 THEN NIL ELSE _r, err |-> ErrNil]
    ELSE IF pss[i].slices = <<>>
    THEN IF pss[i].name = "" THEN NoNode(ErrEmptyPathSegmentTemplate)
         ELSE RegisteredStep(S, rb, pss, i, ChildResourceNamed(S, rb, pss[i].name))
    ELSE RegisteredFound(S, rb, pss, i, resourceWithTemplate(S, _r, pss[i]))

\* registeredResource: the resource the path template leads to from rb, or
\* NIL.  A segment is a template or only a name.
registeredResource(S, rb, pss) == RegisteredLoop(S, rb, pss, 1, rb)

\* The path templates looked up: /$x, /users/$x, /users/$x:{id:^[a]+$},
\* /users/accounts
LookupPaths ==
    {<<NameOnly("x")>>, <<tUsers, NameOnly("x")>>, <<tUsers, tXId>>, <<tUsers, tAccounts>>}

\* A lookup of a registered resource; the tree stays as it is.
DoRegisteredResource ==
    \E rb \in Receivers(Tree), pss \in LookupPaths :
        /\ last' = [op |-> "registeredResource", err |-> registeredResource(Tree, rb, pss).err,
                    branch |-> "none", allNil |-> last.allNil, rb |-> rb, pss |-> pss,
                    r |-> registeredResource(Tree, rb, pss).r]
        /\ UNCHANGED <<tmpl, mh, papa, staticResources, patternResources,
                       wildcardResource, cfs, calls, args, trace, argsPool, requests, handlers>>

NextLookup ==
    \/ DoRegisteredResource
    \/ DoRegisterResource

SpecLookup == Init /\ [][NextLookup]_vars

RECURSIVE Reaches(_, _, _, _)
\* n is reached from rb by the segments pss[1..k], each resolved against the
\* children of the node the segments before it led to.
Reaches(S, rb, pss, n) ==
    IF pss = <<>> THEN n = rb
    ELSE /\ S.papa[n] # NIL
         /\ n \in ChildSet(S, S.papa[n])
         /\ Reaches(S, rb, SubSeq(pss, 1, Len(pss) - 1), S.papa[n])
         /\ IF pss[Len(pss)].slices = <<>>
            THEN S.tmpl[n].name = pss[Len(pss)].name
            ELSE SimilarityWith(S.tmpl[n], pss[Len(pss)]) = TheSame

\* C16: the resource registeredResource returns for /s1/.../sk is a
\* descendant of the receiver at depth k: each segment is resolved against
\* the children of the node the previous segments led to, by name when the
\* segment is only a name, by template otherwise.
C16_RegisteredResourceWalksThePath ==
    (last.op = "registeredResource" /\ last.err = ErrNil /\ last.r # NIL)
        => Reaches(Tree, last.rb, last.pss, last.r)

\* ------------------------------------------------------------------ remaining-path runs

HasTrailingSlash(S, n) == Has(S.cfs[n], {flagTrailingSlash})

IsSubtreeHandler(S, n) == Has(S.cfs[n], {flagSubtreeHandler})

pathIsRoot(a) == a.path = <<slash>>

reachedTheLastPathSegment(a) == a.currentPathSegmentIdx = Len(a.path)

\* A remaining path that always starts at the slash before the next segment.
RemainingPathFromTheSlash(S, a) ==
    IF reachedTheLastPathSegment(a) THEN <<>>
    ELSE IF a.currentPathSegmentIdx > 0
    THEN SubSeq(a.path, a.currentPathSegmentIdx, Len(a.path))
    ELSE a.path

\* Args.RemainingPath (str[i:] is SubSeq(str, i + 1, Len(str))).
RemainingPath(S, a) ==
    IF reachedTheLastPathSegment(a) THEN <<>>
    ELSE IF (a.r # NIL /\ HasTrailingSlash(S, a.r)) \/ pathIsRoot(a)
    THEN IF a.currentPathSegmentIdx = 0
         THEN SubSeq(a.path, 2, Len(a.path))
         ELSE SubSeq(a.path, a.currentPathSegmentIdx + 1, Len(a.path))
    ELSE IF a.currentPathSegmentIdx > 0
    THEN SubSeq(a.path, a.currentPathSegmentIdx, Len(a.path))
    ELSE SubSeq(a.path, a.currentPathSegmentIdx + 1, Len(a.path))

\* The flags the host and the children users and {id} may be configured with.
HandlerFlags == SUBSET {flagSubtreeHandler, flagTrailingSlash}

\* The request paths:  /  /users  /users/aa/b  /c/d  /users/
RemainingPaths ==
    { <<slash>>, <<slash>> \o users, <<slash>> \o users \o <<slash, "a", "a", slash, "b">>,
      <<slash, "c", slash, "d">>, <<slash>> \o users \o <<slash>> }

\* The host has the children users, $x:{id:^[a]+$}, $y:{n:^[ab]+$} and {id};
\* the host, users and {id} are configured.
InitRemaining ==
    \E fh \in {{}, {flagTrailingSlash}}, fu, fw \in HandlerFlags :
        /\ tmpl = RegisterAll(Unregistered, <<1, 2, 3, 4>>, 1).tmpl
        /\ mh = RegisterAll(Unregistered, <<1, 2, 3, 4>>, 1).mh
        /\ papa = RegisterAll(Unregistered, <<1, 2, 3, 4>>, 1).papa
        /\ staticResources = RegisterAll(Unregistered, <<1, 2, 3, 4>>, 1).staticResources
        /\ patternResources = RegisterAll(Unregistered, <<1, 2, 3, 4>>, 1).patternResources
        /\ wildcardResource = RegisterAll(Unregistered, <<1, 2, 3, 4>>, 1).wildcardResource
        /\ cfs = [n \in Nodes |-> IF n = Host THEN fh ELSE IF n = 1 THEN fu
                                   ELSE IF n = 4 THEN fw ELSE {}]
        /\ last = [op |-> "none", err |-> ErrNil, branch |-> "none", allNil |-> TRUE]
        /\ calls = 0
        /\ args = NoArgs
        /\ trace = NoTrace
        /\ argsPool = {}
        /\ requests = <<>>
        /\ handlers = NoHandlers

\* The args of a request for path as the host receives them.
HostArgs(path) == [Args(path, FALSE, 0, FALSE, FALSE) EXCEPT !.r = Host]

\* The args a child's segment handler receives, with the index left where
\* the parent had it.
ChildArgsKeepTheIndex(S, a, invoked) == [a EXCEPT !.r = invoked[1]]

\* The args inside the segment handler of the child the host passes the
\* request to: the index is behind the child's segment.
ChildArgs(S, a, invoked) ==
    [nextPathSegment(a).args EXCEPT !.r = invoked[1]]

\* The handler of the host calls RemainingPath before or after it has taken
\* the segment "/".
DoRemainingPathAtHost ==
    \E path \in RemainingPaths :
      \E a \in {HostArgs(path), nextPathSegment(HostArgs(path)).args} :
        /\ args' = a
        /\ last' = [op |-> "RemainingPath", err |-> ErrNil, branch |-> "none",
                    allNil |-> last.allNil, out |-> RemainingPath(Tree, a)]
        /\ UNCHANGED <<tmpl, mh, papa, staticResources, patternResources,
                       wildcardResource, cfs, calls, trace, argsPool, requests, handlers>>

\* The host passes the request to a child, whose handler calls RemainingPath.
DoRemainingPathAtChild ==
    \E path \in RemainingPaths :
        /\ passRequestToChildResource(Tree, Host, nextPathSegment(HostArgs(path)).args,
                                      TRUE).invoked # <<>>
        /\ args' = ChildArgs(Tree, nextPathSegment(HostArgs(path)).args,
                             passRequestToChildResource(Tree, Host,
                                 nextPathSegment(HostArgs(path)).args, TRUE).invoked)
        /\ last' = [op |-> "RemainingPath", err |-> ErrNil, branch |-> "none",
                    allNil |-> last.allNil, out |-> RemainingPath(Tree, args')]
        /\ UNCHANGED <<tmpl, mh, papa, staticResources, patternResources,
                       wildcardResource, cfs, calls, trace, argsPool, requests, handlers>>

NextRemaining ==
    \/ DoRemainingPathAtHost
    \/ DoRemainingPathAtChild

SpecRemaining == InitRemaining /\ [][NextRemaining]_vars

\* The part of the request path behind the segments taken so far, without
\* the slash it begins with.
Unmatched(a) ==
    SubSeq(a.path, (IF a.currentPathSegmentIdx = 0 THEN 1 ELSE a.currentPathSegmentIdx) + 1,
           Len(a.path))

RECURSIVE DecodeSlashes(_)
\* slashDecoderRe.ReplaceAllLiteralString(segment, "/"): every %2f and %2F
\* of the segment becomes "/".
DecodeSlashes(seg) ==
    IF seg = <<>> THEN <<>>
    ELSE IF Len(seg) >= 3 /\ seg[1] = percent /\ seg[2] = "2" /\ seg[3] \in {"f", "F"}
    THEN <<slash>> \o DecodeSlashes(SubSeq(seg, 4, Len(seg)))
    ELSE <<seg[1]>> \o DecodeSlashes(Tail(seg))

\* nextSegment on a path without its leading slash.
SegmentOf(path) ==
    IF IndexOfSlash(path, 0) < 0 THEN [segment |-> DecodeSlashes(path), path |-> <<>>]
    ELSE [segment |-> DecodeSlashes(SubSeq(path, 1, IndexOfSlash(path, 0))),
          path |-> SubSeq(path, IndexOfSlash(path, 0) + 2, Len(path))]

\* _PathSegmentIterator.nextSegment: the next segment of a path template,
\* decoded, and the path that is left.
nextSegment(path) ==
    IF path = <<>> THEN [segment |-> <<>>, path |-> <<>>]
    ELSE SegmentOf(IF path[1] = slash THEN Tail(path) ELSE path)

RECURSIVE SplitLoop(_, _)
\* The loop of splitPathSegments: the segments up to the first empty one, and
\* the path that is left then.
SplitLoop(path, pss) ==
    IF nextSegment(path).segment = <<>> THEN [pss |-> pss, path |-> nextSegment(path).path]
    ELSE SplitLoop(nextSegment(path).path, Append(pss, nextSegment(path).segment))

\* _PathSegmentIterator.remainingPath: the path without its leading slash.
remainingPath(path) == IF path # <<>> /\ path[1] = slash THEN Tail(path) ELSE path

\* The tslash of makePathSegmentIterator(path).
pathHasTrailingSlash(path) ==
    path # <<>> /\ path # <<slash>> /\ path[Len(path)] = slash

\* splitPathSegments: the segments of a path template, whether it is the
\* root path "/", whether it has a trailing slash, and
\* ErrEmptyPathSegmentTemplate when the loop stopped at an empty segment
\* with something of the path left.
splitPathSegments(path) ==
    IF path = <<slash>>
    THEN [pss |-> <<path>>, root |-> TRUE, tslash |-> FALSE, err |-> ErrNil]
    ELSE IF remainingPath(SplitLoop(path, <<>>).path) # <<>>
    THEN [pss |-> SplitLoop(path, <<>>).pss, root |-> FALSE, tslash |-> FALSE,
          err |-> ErrEmptyPathSegmentTemplate]
    ELSE [pss |-> SplitLoop(path, <<>>).pss, root |-> FALSE,
          tslash |-> pathHasTrailingSlash(path), err |-> ErrNil]

\* TryToParse of segments without a name, "{" or "}": static templates.
StaticTemplates(pss) ==
    [i \in 1..Len(pss) |-> Template("", <<StaticSlice(pss[i])>>, -1)]

\* The path templates /a%2Fb/c and /a%2fb/c.
EscapedTemplates ==
    { <<slash, "a", percent, "2", "F", "b", slash, "c">>,
      <<slash, "a", percent, "2", "f", "b", slash, "c">> }

\* The host and the resources a and b the caller constructed.
HostAlone ==
    [Unregistered EXCEPT
        !.tmpl = [n \in Nodes |-> IF n = Host THEN tHost
                                  ELSE IF n = 1 THEN Template("", <<StaticSlice(<<"a">>)>>, -1)
                                  ELSE IF n = 2 THEN Template("", <<StaticSlice(<<"b">>)>>, -1)
                                  ELSE NoTmpl],
        !.mh = [n \in Nodes |-> n \in {Host, 1, 2}]]

\* The tree after h.Resource(path), h.RegisterResource(a), a.RegisterResource(b).
EscapedTree(path) ==
    RegisterResource(
        RegisterResource(
            Resource(HostAlone, Host, StaticTemplates(splitPathSegments(path).pss), FALSE, FALSE).S,
            Host, 1, <<users, accounts>>).S,
        1, 2, <<users, accounts>>).S

InitEscaped ==
    \E path \in EscapedTemplates :
        /\ tmpl = EscapedTree(path).tmpl
        /\ mh = EscapedTree(path).mh
        /\ papa = EscapedTree(path).papa
        /\ staticResources = EscapedTree(path).staticResources
        /\ patternResources = EscapedTree(path).patternResources
        /\ wildcardResource = EscapedTree(path).wildcardResource
        /\ cfs = EscapedTree(path).cfs
        /\ last = [op |-> "none", err |-> ErrNil, branch |-> "none", allNil |-> TRUE]
        /\ calls = 0
        /\ args = NoArgs
        /\ trace = NoTrace
        /\ argsPool = {}
        /\ requests = <<>>
        /\ handlers = NoHandlers

\* The request paths and whether they are the raw (escaped) form:
\*   /a%2Fb/c  /a%2fb/c  /a%2Fb  /a%2Fb%2Fc  /a%2/c  (raw)  /a/b/c
EscapedPaths ==
    { [path |-> <<slash, "a", percent, "2", "F", "b", slash, "c">>, raw |-> TRUE],
      [path |-> <<slash, "a", percent, "2", "f", "b", slash, "c">>, raw |-> TRUE],
      [path |-> <<slash, "a", percent, "2", "F", "b">>, raw |-> TRUE],
      [path |-> <<slash, "a", percent, "2", "F", "b", percent, "2", "F", "c">>, raw |-> TRUE],
      [path |-> <<slash, "a", percent, "2", slash, "c">>, raw |-> TRUE],
      [path |-> <<slash, "a", slash, "b", slash, "c">>, raw |-> FALSE] }

\* A request reaches the node rb, which passes it on.
DoPassEscapedRequest ==
    \E rb \in Live(Tree), p \in EscapedPaths, subtreeExists \in BOOLEAN,
       handled \in BOOLEAN, h \in BOOLEAN :
        \E idx \in SegmentStarts(p.path) :
            /\ args' = passRequestToChildResource(Tree, rb,
                           Args(p.path, p.raw, idx, subtreeExists, handled), h).args
            /\ trace' =
                  [rb |-> rb, before |-> Args(p.path, p.raw, idx, subtreeExists, handled),
                   seg |-> nextPathSegment(Args(p.path, p.raw, idx, subtreeExists, handled)),
                   invoked |-> passRequestToChildResource(Tree, rb,
                       Args(p.path, p.raw, idx, subtreeExists, handled), h).invoked,
                   notFound |-> passRequestToChildResource(Tree, rb,
                       Args(p.path, p.raw, idx, subtreeExists, handled), h).notFound,
                   badRequest |-> passRequestToChildResource(Tree, rb,
                       Args(p.path, p.raw, idx, subtreeExists, handled), h).badRequest,
                   ret |-> passRequestToChildResource(Tree, rb,
                       Args(p.path, p.raw, idx, subtreeExists, handled), h).ret]
            /\ UNCHANGED <<tmpl, mh, papa, staticResources, patternResources,
                           wildcardResource, cfs, last, calls, argsPool, requests, handlers>>

NextEscaped == DoPassEscapedRequest

SpecEscaped == InitEscaped /\ [][NextEscaped]_vars

RECURSIVE SegmentsFrom(_, _)
\* The segments nextPathSegment returns from the args a on, up to the end of
\* the path or to a segment that cannot be unescaped.
SegmentsFrom(a, fuel) ==
    IF fuel = 0 \/ nextPathSegment(a).err \/ nextPathSegment(a).ps = <<>> THEN <<>>
    ELSE <<nextPathSegment(a).ps>> \o SegmentsFrom(nextPathSegment(a).args, fuel - 1)

\* The number of the slashes written as such in the path.
Slashes(path) == Cardinality({i \in 1..Len(path) : path[i] = slash})

\* The requests for /a%2Fb/c and /a%2fb/c.
EncodedSlashRequest(a) ==
    /\ a.raw
    /\ a.path \in EscapedTemplates

\* C18: an encoded slash inside a segment of the raw request path is decoded
\* to a "/" that belongs to the segment and never separates: below the root
\* a raw path whose escapes are valid has as many segments as slashes
\* written as such, the segments of /a%2Fb/c (and /a%2fb/c) are exactly a/b
\* and c, and for the first of them the host selects its static child keyed
\* a/b.
C18_EncodedSlashBelongsToTheSegment ==
    (trace.rb # NIL /\ trace.before.raw) =>
        /\ (\A i \in 1..Len(trace.before.path) :
                trace.before.path[i] = percent =>
                    PathUnescape(SubSeq(trace.before.path, i, i + 2)) = [s |-> <<slash>>, err |-> FALSE])
            => Len(SegmentsFrom([trace.before EXCEPT !.currentPathSegmentIdx = 1], Fuel))
                   = Slashes(trace.before.path)
        /\ EncodedSlashRequest(trace.before)
            => /\ SegmentsFrom([trace.before EXCEPT !.currentPathSegmentIdx = 1], Fuel)
                     = << <<"a", slash, "b">>, <<"c">> >>
               /\ (trace.rb = Host /\ trace.before.currentPathSegmentIdx = 1)
                     => /\ trace.seg.ps = <<"a", slash, "b">>
                        /\ <<"a", slash, "b">> \in DOMAIN staticResources[Host]
                        /\ trace.invoked = <<staticResources[Host][<<"a", slash, "b">>]>>
                        /\ UnescapedContent(tmpl[trace.invoked[1]]) = <<"a", slash, "b">>

\* The host passed a request for /a%2Fb/c on to its child a/b.
C18_Witness ==
    /\ trace.rb = Host
    /\ EncodedSlashRequest(trace.before)
    /\ trace.before.currentPathSegmentIdx = 1
    /\ Len(trace.invoked) = 1
    /\ UnescapedContent(tmpl[trace.invoked[1]]) = <<"a", slash, "b">>

\* ------------------------------------------------------------------ pool runs

\* Number of requests served in a run.
MaxRequests == 2

\* Length up to which a request fills a slice of its Args.
MaxLen == 2

\* A Go slice: its backing array and its length; nil is the empty slice
\* without an array.
Slice(arr, len) == [arr |-> arr, len |-> len]

NilSlice == Slice(<<>>, 0)

\* The elements of the slice.
Elems(sl) == SubSeq(sl.arr, 1, sl.len)

\* sl[:0]
Resliced(sl) == Slice(sl.arr, 0)

\* append(sl, e): into the backing array while it has room.
AppendTo(sl, e) ==
    IF sl.len < Len(sl.arr) THEN Slice([sl.arr EXCEPT ![sl.len + 1] = e], sl.len + 1)
    ELSE Slice(Append(Elems(sl), e), sl.len + 1)

NilValue == "nil"

\* _Args.get: the index (0 for Go's -1) and the value of the key.
get(slc, key) ==
    IF \E i \in 1..slc.len : slc.arr[i].key = key
    THEN [i |-> CHOOSE i \in 1..slc.len :
                    slc.arr[i].key = key /\ \A j \in 1..(i - 1) : slc.arr[j].key # key,
          value |-> slc.arr[CHOOSE i \in 1..slc.len :
                    slc.arr[i].key = key /\ \A j \in 1..(i - 1) : slc.arr[j].key # key].value]
    ELSE [i |-> 0, value |-> NilValue]

\* _Args.set
set(slc, key, value) ==
    IF get(slc, key).i = 0 THEN AppendTo(slc, [key |-> key, value |-> value])
    ELSE Slice([slc.arr EXCEPT ![get(slc, key).i] = [key |-> key, value |-> value]], slc.len)

\* Args.Get
Get(a, key) == get(a.slc, key).value

NoURL == [Path |-> <<>>, RawPath |-> <<>>]

\* &Args{}, what the pool makes when it is empty.
NewArgs ==
    [url |-> NoURL, cleanPath |-> <<>>, currentPathSegmentIdx |-> 0,
     subtreeExists |-> FALSE, handled |-> FALSE, hostPathValues |-> NilSlice,
     r |-> NIL, slc |-> NilSlice]

RECURSIVE Segments(_)
\* The pieces of a path between its slashes.
Segments(path) ==
    IF IndexOfSlash(path, 0) < 0 THEN <<path>>
    ELSE <<SubSeq(path, 1, IndexOfSlash(path, 0))>>
             \o Segments(SubSeq(path, IndexOfSlash(path, 0) + 2, Len(path)))

RECURSIVE CleanSegments(_, _)
\* The segments path.Clean keeps of a rooted path: empty ones and "." are
\* dropped, ".." drops the one before it.
CleanSegments(segs, kept) ==
    IF segs = <<>> THEN kept
    ELSE IF Head(segs) \in {<<>>, <<".">>} THEN CleanSegments(Tail(segs), kept)
    ELSE IF Head(segs) = <<".", ".">>
    THEN CleanSegments(Tail(segs), SubSeq(kept, 1, Len(kept) - 1))
    ELSE CleanSegments(Tail(segs), Append(kept, Head(segs)))

RECURSIVE Joined(_)
Joined(segs) ==
    IF segs = <<>> THEN <<>> ELSE <<slash>> \o Head(segs) \o Joined(Tail(segs))

\* path.Clean of a rooted path.
Clean(path) ==
    IF CleanSegments(Segments(path), <<>>) = <<>> THEN <<slash>>
    ELSE Joined(CleanSegments(Segments(path), <<>>))

\* getArgsFromThePool with the Args object the pool hands out.
getArgsFromThePool(url, _r, pooled) == [pooled EXCEPT !.url = url, !.r = _r]

\* The clean path of getArgs for the rooted path tmpPath.
CleanPathOf(tmpPath) ==
    IF Len(tmpPath) > 1 /\ tmpPath[Len(tmpPath)] = slash /\ Len(Clean(tmpPath)) > 1
    THEN Clean(tmpPath) \o <<slash>>
    ELSE Clean(tmpPath)

\* getArgs after tmpPath was chosen.
ArgsWithCleanPath(a, tmpPath) ==
    IF tmpPath = <<>> THEN a
    ELSE IF tmpPath[1] # slash
    THEN IF Len(CleanPathOf(<<slash>> \o tmpPath)) # Len(tmpPath) + 1
         THEN [a EXCEPT !.cleanPath = CleanPathOf(<<slash>> \o tmpPath)] ELSE a
    ELSE IF Len(CleanPathOf(tmpPath)) # Len(tmpPath)
         THEN [a EXCEPT !.cleanPath = CleanPathOf(tmpPath)] ELSE a

\* getArgs
getArgs(url, _r, pooled) ==
    ArgsWithCleanPath(getArgsFromThePool(url, _r, pooled),
                      IF Len(url.RawPath) > 0 THEN url.RawPath ELSE url.Path)

\* A release that puts the Args into the pool as they are.
putArgsInThePoolAsTheyAre(a) == a

\* putArgsInThePool: the Args object as it lies in the pool.
putArgsInThePool(a) ==
    [a EXCEPT !.cleanPath = <<>>, !.currentPathSegmentIdx = 0,
              !.subtreeExists = FALSE, !.handled = FALSE,
              !.hostPathValues = Resliced(@), !.slc = Resliced(@)]

\* The path the Args use: the clean path, else the raw path, else the path.
UsedPath(a) ==
    IF a.cleanPath # <<>> THEN a.cleanPath
    ELSE IF a.url.RawPath # <<>> THEN a.url.RawPath ELSE a.url.Path

\* The URLs of the requests: /users/aa, /users//aa/, /a%2Fb (raw)
URLs ==
    { [Path |-> <<slash>> \o users \o <<slash, "a", "a">>, RawPath |-> <<>>],
      [Path |-> <<slash>> \o users \o <<slash, slash, "a", "a", slash>>, RawPath |-> <<>>],
      [Path |-> <<slash, "a", slash, "b">>,
       RawPath |-> <<slash, "a", percent, "2", "F", "b">>] }

Keys == {"k1", "k2"}

InitPool ==
    /\ tmpl = RegisterAll(Unregistered, <<1, 2, 3, 4>>, 1).tmpl
    /\ mh = RegisterAll(Unregistered, <<1, 2, 3, 4>>, 1).mh
    /\ papa = RegisterAll(Unregistered, <<1, 2, 3, 4>>, 1).papa
    /\ staticResources = RegisterAll(Unregistered, <<1, 2, 3, 4>>, 1).staticResources
    /\ patternResources = RegisterAll(Unregistered, <<1, 2, 3, 4>>, 1).patternResources
    /\ wildcardResource = RegisterAll(Unregistered, <<1, 2, 3, 4>>, 1).wildcardResource
    /\ cfs = RegisterAll(Unregistered, <<1, 2, 3, 4>>, 1).cfs
    /\ last = [op |-> "none", err |-> ErrNil, branch |-> "none", allNil |-> TRUE]
    /\ calls = 0
    /\ args = NewArgs
    /\ trace = NoTrace
    /\ argsPool = {}
    /\ requests = <<>>
    /\ handlers = NoHandlers

\* A request holds Args: it got them and has not released them.
InFlight == last.op \in {"getArgs", "Set", "pass"}

\* A request arrives and gets its Args: an object of the pool, or a new one
\* (the pool may be empty or may have dropped its objects).
DoGetArgs ==
    \E url \in URLs, _r \in {Host}, pooled \in argsPool \cup {NewArgs} :
        /\ ~InFlight
        /\ calls < MaxRequests
        /\ calls' = calls + 1
        /\ args' = getArgs(url, _r, pooled)
        /\ argsPool' = argsPool \ {pooled}
        /\ last' = [op |-> "getArgs", err |-> ErrNil, branch |-> "none",
                    allNil |-> last.allNil, url |-> url, r |-> _r, pooled |-> pooled]
        /\ UNCHANGED <<tmpl, mh, papa, staticResources, patternResources,
                       wildcardResource, cfs, trace, requests, handlers>>

\* A handler or middleware of the request calls Args.Set.
DoSet ==
    \E key \in Keys, value \in {"v"} :
        /\ InFlight
        /\ set(args.slc, key, value).len <= MaxLen
        /\ args' = [args EXCEPT !.slc = set(@, key, value)]
        /\ last' = [last EXCEPT !.op = "Set"]
        /\ UNCHANGED <<tmpl, mh, papa, staticResources, patternResources,
                       wildcardResource, cfs, calls, trace, argsPool, requests, handlers>>

\* The request is passed one segment down, to the child users or {id}: the
\* index moves on, the wildcard template adds a value, the child becomes the
\* responder, and the handlers set the flags.
DoPassDown ==
    \E child \in {1, 4}, subtreeExists \in BOOLEAN, handled \in BOOLEAN :
        /\ InFlight
        /\ ~args.handled
        /\ args.currentPathSegmentIdx < Len(UsedPath(args))
        /\ args.hostPathValues.len < MaxLen
        /\ args' = [args EXCEPT
               !.currentPathSegmentIdx =
                   nextPathSegment(Args(UsedPath(args), args.url.RawPath # <<>>,
                                        args.currentPathSegmentIdx, FALSE, FALSE)
                                  ).args.currentPathSegmentIdx,
               !.hostPathValues = IF IsWildcard(tmpl[child])
                                  THEN AppendTo(@, [key |-> "id", value |-> child])
                                  ELSE @,
               !.r = child,
               !.subtreeExists = subtreeExists,
               !.handled = handled]
        /\ last' = [last EXCEPT !.op = "pass"]
        /\ UNCHANGED <<tmpl, mh, papa, staticResources, patternResources,
                       wildcardResource, cfs, calls, trace, argsPool, requests, handlers>>

\* The request is done and releases its Args.
DoPutArgsInThePool ==
    /\ InFlight
    /\ argsPool' = argsPool \cup {putArgsInThePool(args)}
    /\ args' = NewArgs
    /\ last' = [last EXCEPT !.op = "putArgsInThePool"]
    /\ UNCHANGED <<tmpl, mh, papa, staticResources, patternResources,
                   wildcardResource, cfs, calls, trace, requests, handlers>>

NextPool ==
    \/ DoGetArgs
    \/ DoSet
    \/ DoPassDown
    \/ DoPutArgsInThePool

SpecPool == InitPool /\ [][NextPool]_vars

\* What a request can read of its Args.
Visible(a) ==
    [url |-> a.url, cleanPath |-> a.cleanPath,
     currentPathSegmentIdx |-> a.currentPathSegmentIdx,
     subtreeExists |-> a.subtreeExists, handled |-> a.handled,
     hostPathValues |-> Elems(a.hostPathValues), r |-> a.r,
     values |-> [key \in Keys |-> Get(a, key)]]

\* C19: Args taken from the pool carry nothing of the request that released
\* them: in the pool the clean path is empty, the index 0, the flags false,
\* the value list empty and no key set; and a request that gets such Args
\* reads from them what it reads from new Args: its own URL and responder,
\* the clean path of its own URL, no value and no key.
C19_PooledArgsCarryNothing ==
    /\ \A a \in argsPool :
          /\ a.cleanPath = <<>> /\ a.currentPathSegmentIdx = 0
          /\ ~a.subtreeExists /\ ~a.handled
          /\ Elems(a.hostPathValues) = <<>>
          /\ \A key \in Keys : Get(a, key) = NilValue
    /\ last.op = "getArgs" =>
          /\ Visible(args) = Visible(getArgs(last.url, last.r, NewArgs))
          /\ args.url = last.url /\ args.r = last.r
          /\ args.currentPathSegmentIdx = 0 /\ ~args.subtreeExists /\ ~args.handled
          /\ Elems(args.hostPathValues) = <<>>
          /\ \A key \in Keys : Get(args, key) = NilValue

\* A request got the Args of an earlier request for another URL that had
\* set a key, taken a value and been handled.
C19_Witness ==
    /\ last.op = "getArgs"
    /\ last.pooled.url \notin {NoURL, last.url}
    /\ last.pooled.slc.arr # <<>>
    /\ last.pooled.hostPathValues.arr # <<>>
    /\ last.pooled.r # last.r

\* ------------------------------------------------------------------ concurrent runs

\* Number of requests dispatched at the same time.
NumRequests == 2

\* The tree the requests are dispatched over: the host has the children
\* users, $y:{n:^[ab]+$} and {id}, and users has the child $x:{id:^[a]+$}.
ConstructedTree ==
    RegisterResource(RegisterAll(Unregistered, <<1, 3, 4>>, 1), 1, 2, <<users, accounts>>).S

\* The args of a request as the host passes it on: the host has taken "/".
RequestArgs(p, subtreeExists) ==
    [Args(p.path, p.raw, 1, subtreeExists, FALSE) EXCEPT !.r = Host]

\* A request in flight: its own Args, the node it has reached, the nodes
\* selected for it so far, and how it ended ("running" while it has not).
Request(a) == [args |-> a, rb |-> Host, selected |-> <<>>, state |-> "running"]

\* The request rq after passRequestToChildResource returned passed at its node.
PassedRequest(S, rq, passed) ==
    IF passed.invoked # <<>>
    THEN [rq EXCEPT !.args = ChildArgs(S, rq.args, passed.invoked),
                    !.rb = passed.invoked[1],
                    !.selected = Append(@, passed.invoked[1])]
    ELSE [rq EXCEPT !.args = passed.args,
                    !.state = IF passed.badRequest > 0 THEN "badRequest"
                              ELSE IF passed.notFound > 0 THEN "notFound"
                              ELSE "unhandled"]

\* The segment handler of the node the request rq has reached: the node
\* handles a request that reached its last segment, and passes on any other.
segmentHandler(S, rq) ==
    IF reachedTheLastPathSegment(rq.args) /\ canHandleRequest(S, rq.rb)
    THEN [rq EXCEPT !.args.handled = TRUE, !.state = "handled"]
    ELSE PassedRequest(S, rq, passRequestToChildResource(S, rq.rb, rq.args, TRUE))

InitConcurrent ==
    \E ps \in [1..NumRequests -> RequestPaths], subtreeExists \in BOOLEAN :
        /\ tmpl = ConstructedTree.tmpl
        /\ mh = ConstructedTree.mh
        /\ papa = ConstructedTree.papa
        /\ staticResources = ConstructedTree.staticResources
        /\ patternResources = ConstructedTree.patternResources
        /\ wildcardResource = ConstructedTree.wildcardResource
        /\ cfs = ConstructedTree.cfs
        /\ last = [op |-> "none", err |-> ErrNil, branch |-> "none", allNil |-> TRUE]
        /\ calls = 0
        /\ args = NoArgs
        /\ trace = NoTrace
        /\ argsPool = {}
        /\ requests = [i \in 1..NumRequests |-> Request(RequestArgs(ps[i], subtreeExists))]
        /\ handlers = NoHandlers

\* One of the requests takes its next step: the segment handler of the node
\* it has reached runs.
DoSegmentHandler ==
    \E i \in 1..NumRequests :
        /\ requests[i].state = "running"
        /\ requests' = [requests EXCEPT ![i] = segmentHandler(Tree, requests[i])]
        /\ UNCHANGED handlers
        /\ UNCHANGED <<tmpl, mh, papa, staticResources, patternResources,
                       wildcardResource, cfs, last, calls, args, trace, argsPool>>

NextConcurrent == DoSegmentHandler

SpecConcurrent == InitConcurrent /\ [][NextConcurrent]_vars

\* How a request without a child to go to ends.
Unserved(a) == IF a.subtreeExists THEN "unhandled" ELSE "notFound"

RECURSIVE Alone(_, _, _, _, _)
\* The nodes selected for a request dispatched alone from the node rb with
\* the args a, and how it ends: at each node the child is the one the
\* dispatch order selects for the next segment.
Alone(S, rb, a, selected, fuel) ==
    IF fuel = 0 THEN [selected |-> selected, state |-> "running"]
    ELSE IF reachedTheLastPathSegment(a)
    THEN [selected |-> selected,
          state |-> IF canHandleRequest(S, rb) THEN "handled" ELSE Unserved(a)]
    ELSE IF nextPathSegment(a).err THEN [selected |-> selected, state |-> "badRequest"]
    ELSE IF nextPathSegment(a).ps = <<>> \/ Selected(S, rb, nextPathSegment(a).ps) = NIL
    THEN [selected |-> selected, state |-> Unserved(a)]
    ELSE Alone(S, Selected(S, rb, nextPathSegment(a).ps), nextPathSegment(a).args,
               Append(selected, Selected(S, rb, nextPathSegment(a).ps)), fuel - 1)

\* The request as it arrived at the host.
Arrived(rq) == [rq.args EXCEPT !.currentPathSegmentIdx = 1, !.r = Host, !.handled = FALSE]

ErrInvalidTemplate == "ErrInvalidTemplate"
ErrDifferentPattern == "ErrDifferentPattern"
ErrRepeatedWildcardName == "ErrRepeatedWildcardName"
ErrAnotherWildcardName == "ErrAnotherWildcardName"
ErrMissingValue == "ErrMissingValue"
ErrInvalidValue == "ErrInvalidValue"

backslash == "\\"

\* s[a:b] and s[i] of a string, with the 0-based indexes of the code.
Str(s, a, b) == SubSeq(s, a + 1, b)

At(s, i) == s[i + 1]

\* strings.IndexByte(s[from:], ch) + from: the 0-based index of the first ch
\* at or after from, or from - 1.
IndexByteFrom(s, ch, from) ==
    IF \E j \in from..Len(s) - 1 : At(s, j) = ch
    THEN CHOOSE j \in from..Len(s) - 1 :
            At(s, j) = ch /\ \A h \in from..j - 1 : At(s, h) # ch
    ELSE from - 1

RECURSIVE NameLoop(_, _, _)
\* The loop of templateNameAndContent over a template string that starts
\* with "$": strb is the name written so far.
NameLoop(tmplStr, i, strb) ==
    IF i >= Len(tmplStr)
    THEN [name |-> strb, content |-> Str(tmplStr, i, Len(tmplStr)), err |-> ErrNil]
    ELSE IF IndexByteFrom(tmplStr, ":", i) < i
    THEN [name |-> strb \o Str(tmplStr, i, Len(tmplStr)), content |-> <<>>, err |-> ErrNil]
    ELSE IF IndexByteFrom(tmplStr, ":", i) > i
            /\ At(tmplStr, IndexByteFrom(tmplStr, ":", i) - 1) = backslash
    THEN NameLoop(tmplStr, IndexByteFrom(tmplStr, ":", i) + 1,
                  strb \o Str(tmplStr, i, IndexByteFrom(tmplStr, ":", i) - 1) \o <<":">>)
    ELSE [name |-> strb \o Str(tmplStr, i, IndexByteFrom(tmplStr, ":", i)),
          content |-> Str(tmplStr, IndexByteFrom(tmplStr, ":", i) + 1, Len(tmplStr)),
          err |-> ErrNil]

\* templateNameAndContent: the name after "$" up to the first unescaped ":"
\* and the content after it; a template without "$" has no name.
templateNameAndContent(tmplStr) ==
    IF At(tmplStr, 0) = "$"
    THEN IF Len(tmplStr) = 1
         THEN [name |-> <<>>, content |-> <<>>, err |-> ErrInvalidTemplate]
         ELSE NameLoop(tmplStr, 1, <<>>)
    ELSE IF Len(tmplStr) > 1 /\ At(tmplStr, 0) = backslash /\ At(tmplStr, 1) = "$"
    THEN [name |-> <<>>, content |-> Tail(tmplStr), err |-> ErrNil]
    ELSE [name |-> <<>>, content |-> tmplStr, err |-> ErrNil]

RECURSIVE StaticLoop(_, _, _, _, _)
\* The loop of staticSlice: i is the index of the character, idx the start of
\* what is not written yet, strb what is written, pch the previous character.
StaticLoop(s, i, idx, strb, pch) ==
    IF i >= Len(s)
    THEN [staticStr |-> strb \o Str(s, idx, Len(s)), left |-> <<>>, err |-> ErrNil]
    ELSE IF At(s, i) = "{"
    THEN IF pch # backslash
         THEN [staticStr |-> strb \o Str(s, idx, i), left |-> Str(s, i, Len(s)),
               err |-> ErrNil]
         ELSE StaticLoop(s, i + 1, i + 1, strb \o Str(s, idx, i - 1) \o <<"{">>, "{")
    ELSE IF At(s, i) = "}"
    THEN IF pch # backslash
         THEN [staticStr |-> <<>>, left |-> <<>>, err |-> ErrInvalidTemplate]
         ELSE StaticLoop(s, i + 1, i + 1, strb \o Str(s, idx, i - 1) \o <<"}">>, "}")
    ELSE StaticLoop(s, i + 1, idx, strb, At(s, i))

\* staticSlice: the static slice at the beginning of the template string and
\* the rest of the string.
staticSlice(tmplStrSlc) == StaticLoop(tmplStrSlc, 0, 0, <<>>, "0")

\* What dynamicSlice returns on an error.
DynamicErr == [valueName |-> <<>>, pattern |-> <<>>, left |-> <<>>, err |-> ErrInvalidTemplate]

RECURSIVE DynamicLoop(_, _, _, _, _, _, _)
\* The loop of dynamicSlice: sliceType is 0 in the value name and 1 in the
\* pattern, depth the number of open braces, strb what is written and vName
\* the value name once it is known.  A character class is one character of
\* the model's strings, so the loop never is inside one.
DynamicLoop(s, i, idx, sliceType, depth, strb, vName) ==
    IF i >= Len(s) THEN DynamicErr
    ELSE IF At(s, i) = "{"
    THEN DynamicLoop(s, i + 1, idx, sliceType, depth + 1, strb, vName)
    ELSE IF sliceType = 0 /\ At(s, i) = ":"
    THEN IF i > 1 /\ At(s, i - 1) = backslash
         THEN DynamicLoop(s, i + 1, i + 1, 0, depth,
                          strb \o Str(s, idx, i - 1) \o <<":">>, vName)
         ELSE IF depth > 1 THEN DynamicErr
         ELSE IF strb \o Str(s, idx, i) = <<>> THEN DynamicErr
         ELSE DynamicLoop(s, i + 1, i + 1, 1, depth, <<>>, strb \o Str(s, idx, i))
    ELSE IF sliceType = 0 /\ At(s, i) = "}"
    THEN IF depth - 1 > 0
         THEN DynamicLoop(s, i + 1, idx, 0, depth - 1, strb, vName)
         ELSE IF strb = <<>> /\ i = idx THEN DynamicErr
         ELSE [valueName |-> strb \o Str(s, idx, i), pattern |-> <<>>,
               left |-> Str(s, i + 1, Len(s)), err |-> ErrNil]
    ELSE IF sliceType = 1 /\ At(s, i) = backslash
    THEN DynamicLoop(s, i + 2, idx, 1, depth, strb, vName)
    ELSE IF sliceType = 1 /\ At(s, i) = "}"
    THEN IF depth - 1 > 0
         THEN DynamicLoop(s, i + 1, idx, 1, depth - 1, strb, vName)
         ELSE IF i = idx THEN DynamicErr
         ELSE [valueName |-> vName, pattern |-> Str(s, idx, i),
               left |-> Str(s, i + 1, Len(s)), err |-> ErrNil]
    ELSE DynamicLoop(s, i + 1, idx, sliceType, depth, strb, vName)

\* dynamicSlice: the value name and the pattern of the dynamic slice at the
\* beginning of the template string, and the rest of the string.
dynamicSlice(tmplStrSlc) == DynamicLoop(tmplStrSlc, 1, 1, 0, 1, <<>>, <<>>)

\* The class of a character-class repetition.
ClassOf(atom) ==
    CASE atom = "[a]+" -> {"a"}
      [] atom = "[b]+" -> {"b"}
      [] atom = "[ab]+" -> {"a", "b"}

\* The number of "^" a pattern starts with.
LeadingAnchors(pattern) ==
    CHOOSE n \in 0..Len(pattern) :
        /\ \A j \in 1..n : pattern[j] = "^"
        /\ n = Len(pattern) \/ pattern[n + 1] # "^"

\* regexp.Compile of a pattern of the model: a character-class repetition
\* after any number of "^" and before any number of "$".  The regexp keeps
\* the pattern as its source.
Compile(pattern) ==
    [cls |-> ClassOf(pattern[LeadingAnchors(pattern) + 1]),
     anchS |-> LeadingAnchors(pattern) > 0,
     anchE |-> Len(pattern) > LeadingAnchors(pattern) + 1,
     src |-> pattern]

\* The pattern as appendDynamicSliceTo compiles it: it must match at the end
\* of the string when it comes after the wildcard and at the start otherwise.
Anchored(pattern, wildCardIdx) ==
    IF wildCardIdx >= 0 THEN pattern \o <<"$">> ELSE <<"^">> \o pattern

\* What appendDynamicSliceTo returns on an error.
AppendErr(err) ==
    [tss |-> <<>>, wildCardIdx |-> -1, valuePatterns |-> <<>>, err |-> err]

\* appendDynamicSliceTo that takes every slice without a pattern for the
\* wildcard, whether the template has one already or not.
appendDynamicSliceToWithAnotherWildcard(tss, vName, pattern, valuePatterns, wildCardIdx) ==
    IF vName \in DOMAIN valuePatterns
    THEN IF pattern # <<>> /\ Anchored(pattern, wildCardIdx) # valuePatterns[vName].re.src
         THEN AppendErr(ErrDifferentPattern)
         ELSE [tss |-> Append(tss, [staticStr |-> <<>>, valuePattern |-> valuePatterns[vName]]),
               wildCardIdx |-> wildCardIdx, valuePatterns |-> valuePatterns, err |-> ErrNil]
    ELSE IF pattern = <<>>
    THEN [tss |-> Append(tss, DynamicSlice(vName, NoRe)),
          wildCardIdx |-> Len(tss),
          valuePatterns |->
              [n \in DOMAIN valuePatterns |->
                  ValuePattern(n, Compile(Tail(valuePatterns[n].re.src) \o <<"$">>))],
          err |-> ErrNil]
    ELSE [tss |-> Append(tss, DynamicSlice(vName, Compile(Anchored(pattern, wildCardIdx)))),
          wildCardIdx |-> wildCardIdx,
          valuePatterns |-> SetValue(valuePatterns, vName,
                                ValuePattern(vName, Compile(Anchored(pattern, wildCardIdx)))),
          err |-> ErrNil]

\* appendDynamicSliceTo: the slices with the dynamic slice of the value name
\* and the pattern, the index of the wildcard and the map of the value
\* patterns created so far.  A repeated value name reuses its value pattern;
\* a slice without a pattern is the wildcard, and when it is appended the
\* value patterns of the map are compiled again to match at the end.
appendDynamicSliceTo(tss, vName, pattern, valuePatterns, wildCardIdx) ==
    IF vName \in DOMAIN valuePatterns
    THEN IF pattern # <<>> /\ Anchored(pattern, wildCardIdx) # valuePatterns[vName].re.src
         THEN AppendErr(ErrDifferentPattern)
         ELSE [tss |-> Append(tss, [staticStr |-> <<>>, valuePattern |-> valuePatterns[vName]]),
               wildCardIdx |-> wildCardIdx, valuePatterns |-> valuePatterns, err |-> ErrNil]
    ELSE IF pattern = <<>>
    THEN IF wildCardIdx >= 0
         THEN IF vName = tss[wildCardIdx + 1].valuePattern.name
              THEN AppendErr(ErrRepeatedWildcardName)
              ELSE AppendErr(ErrAnotherWildcardName)
         ELSE [tss |-> Append(tss, DynamicSlice(vName, NoRe)),
               wildCardIdx |-> Len(tss),
               valuePatterns |->
                   [n \in DOMAIN valuePatterns |->
                       ValuePattern(n, Compile(Tail(valuePatterns[n].re.src) \o <<"$">>))],
               err |-> ErrNil]
    ELSE [tss |-> Append(tss, DynamicSlice(vName, Compile(Anchored(pattern, wildCardIdx)))),
          wildCardIdx |-> wildCardIdx,
          valuePatterns |-> SetValue(valuePatterns, vName,
                                ValuePattern(vName, Compile(Anchored(pattern, wildCardIdx)))),
          err |-> ErrNil]

\* What parse returns on an error.
ParseErr(err) == [slices |-> <<>>, wildCardIdx |-> -1, err |-> err]

RECURSIVE ParseLoop(_, _, _, _)
\* The loop of parse: a static slice, then a dynamic slice, as long as the
\* template string lasts.
ParseLoop(tmplStrSlc, tss, valuePatterns, wildcardIdx) ==
    IF tmplStrSlc = <<>>
    THEN [slices |-> tss, wildCardIdx |-> wildcardIdx, err |-> ErrNil]
    ELSE LET st == staticSlice(tmplStrSlc)
             tss1 == IF st.staticStr # <<>> THEN Append(tss, StaticSlice(st.staticStr))
                     ELSE tss
         IN IF st.err # ErrNil THEN ParseErr(st.err)
            ELSE IF st.left = <<>>
            THEN [slices |-> tss1, wildCardIdx |-> wildcardIdx, err |-> ErrNil]
            ELSE LET d == dynamicSlice(st.left)
                 IN IF d.err # ErrNil THEN ParseErr(d.err)
                    ELSE LET a == appendDynamicSliceTo(tss1, d.valueName, d.pattern,
                                                       valuePatterns, wildcardIdx)
                         IN IF a.err # ErrNil THEN ParseErr(a.err)
                            ELSE ParseLoop(d.left, a.tss, a.valuePatterns, a.wildCardIdx)

\* The slices as parse returns them: the pattern of a value-pattern slice
\* that is the only slice is compiled again to match the whole string.
WholeString(p) ==
    IF p.err = ErrNil /\ Len(p.slices) = 1
       /\ ~p.slices[1].valuePattern.isNil /\ p.slices[1].valuePattern.re # NoRe
    THEN [p EXCEPT !.slices[1].valuePattern.re =
                       Compile(p.slices[1].valuePattern.re.src \o <<"$">>)]
    ELSE p

\* parse: the slices of the template string and the index of the wildcard.
parse(tmplStr) ==
    IF tmplStr = <<>> THEN ParseErr(ErrInvalidTemplate)
    ELSE WholeString(ParseLoop(tmplStr, <<>>, NoMatch.values, -1))

\* The indexes of the dynamic slices of a template.
DynamicIdxs(t) == {i \in 1..Len(t.slices) : ~t.slices[i].valuePattern.isNil}

\* The template as TryToParse names it: a template without a name that has
\* a single dynamic slice gets the value name of the slice.
Named(t) ==
    IF ~IsStatic(t) /\ t.name = <<>> /\ Cardinality(DynamicIdxs(t)) = 1
    THEN [t EXCEPT !.name = t.slices[CHOOSE i \in DynamicIdxs(t) : TRUE].valuePattern.name]
    ELSE t

\* TryToParse: the template of the template string, or the error.
TryToParse(tmplStr) ==
    IF tmplStr = <<>> THEN [tmpl |-> NoTmpl, err |-> ErrInvalidTemplate]
    ELSE IF templateNameAndContent(tmplStr).err # ErrNil
    THEN [tmpl |-> NoTmpl, err |-> templateNameAndContent(tmplStr).err]
    ELSE IF parse(templateNameAndContent(tmplStr).content).err # ErrNil
    THEN [tmpl |-> NoTmpl, err |-> parse(templateNameAndContent(tmplStr).content).err]
    ELSE [tmpl |-> Named(Template(templateNameAndContent(tmplStr).name,
                                  parse(templateNameAndContent(tmplStr).content).slices,
                                  parse(templateNameAndContent(tmplStr).content).wildCardIdx)),
          err |-> ErrNil]

\* The longest template string of the runs, in pieces.
MaxPieces == 3

\* The pieces of the template strings: static text, wildcards, value
\* patterns, and the pieces of malformed templates.
Pieces ==
    {<<"x">>, <<"y">>,
     <<"{", "w", "}">>, <<"{", "v", "}">>, <<"{", "a", "}">>,
     <<"{", "a", ":", "[a]+", "}">>, <<"{", "b", ":", "[b]+", "}">>,
     <<"{", "a", ":", "[b]+", "}">>,
     <<"}">>, <<"{">>, <<"{", ":", "[a]+", "}">>}

RECURSIVE Concat(_)
\* The pieces one after the other.
Concat(pieces) == IF pieces = <<>> THEN <<>> ELSE Head(pieces) \o Concat(Tail(pieces))

\* The template strings of the runs, with and without a template name.
TemplateStrings ==
    {<<"$">>}
    \cup {pre \o Concat(ps) :
            pre \in {<<>>, <<"$", "n", ":">>},
            ps \in UNION {[1..k -> Pieces] : k \in 1..MaxPieces}}

InitParse ==
    /\ tmpl = [n \in Nodes |-> NoTmpl]
    /\ mh = [n \in Nodes |-> FALSE]
    /\ papa = [n \in Nodes |-> NIL]
    /\ staticResources = [n \in Nodes |-> EmptyMap]
    /\ patternResources = [n \in Nodes |-> <<>>]
    /\ wildcardResource = [n \in Nodes |-> NIL]
    /\ cfs = [n \in Nodes |-> {}]
    /\ last = [op |-> "none", err |-> ErrNil, branch |-> "none", allNil |-> TRUE]
    /\ calls = 0
    /\ args = NoArgs
    /\ trace = NoTrace
    /\ argsPool = {}
    /\ requests = <<>>
    /\ handlers = NoHandlers

\* TryToParse(tmplStr) is called and returns.
DoTryToParse ==
    /\ last.op = "none"
    /\ \E tmplStr \in TemplateStrings :
        last' = [op |-> "TryToParse", err |-> TryToParse(tmplStr).err,
                 branch |-> "none", allNil |-> TRUE,
                 tmplStr |-> tmplStr, t |-> TryToParse(tmplStr).tmpl]
    /\ calls' = calls + 1
    /\ UNCHANGED <<tmpl, mh, papa, staticResources, patternResources,
                   wildcardResource, cfs, args, trace, argsPool, requests, handlers>>

\* The indexes of the slices without a regex among the dynamic slices.
WildcardIdxs(t) == {i \in DynamicIdxs(t) : t.slices[i].valuePattern.re = NoRe}

\* C21: every template a successful parse returns has at most one wildcard
\* slice, a dynamic slice without a regex: when it has one, the wildcard
\* index is the position of that slice, and when it has none the wildcard
\* index is -1 and every dynamic slice has a regex.
C21_AtMostOneWildcard ==
    (last.op = "TryToParse" /\ last.err = ErrNil) =>
        /\ Cardinality(WildcardIdxs(last.t)) <= 1
        /\ WildcardIdxs(last.t) # {} => WildcardIdxs(last.t) = {last.t.wildCardIdx + 1}
        /\ WildcardIdxs(last.t) = {} => last.t.wildCardIdx = -1

\* A template with a wildcard after a value pattern and before the slice
\* that repeats the value pattern was parsed.
C21_Witness ==
    /\ last.op = "TryToParse" /\ last.err = ErrNil
    /\ Len(last.t.slices) = 3
    /\ last.t.wildCardIdx = 1
    /\ last.t.slices[1].valuePattern.re = Regex({"a"}, TRUE, FALSE)
    /\ last.t.slices[3].valuePattern.re = Regex({"a"}, FALSE, TRUE)

\* ------------------------------------------------------------- match runs

\* The longest string matched against a template.
MaxStr == 4

\* The pieces of the templates that are matched: static text, a wildcard and
\* value patterns.
MatchPieces ==
    {<<"x">>, <<"{", "w", "}">>, <<"{", "a", "}">>,
     <<"{", "a", ":", "[a]+", "}">>, <<"{", "b", ":", "[b]+", "}">>}

\* The template strings of the templates that are matched; those that do
\* not parse have no template.
MatchTemplateStrings ==
    {s \in {Concat(ps) : ps \in UNION {[1..k -> MatchPieces] : k \in 1..MaxPieces}} :
        TryToParse(s).err = ErrNil}

\* The strings matched against the templates.
MatchStrings == UNION {[1..k -> {"a", "b", "x"}] : k \in 0..MaxStr}

\* What is left of str when the two loops of Match are over and Match
\* returns true: the part no slice of the template has consumed.
MatchRest(t, str) ==
    MatchSuffix(t, Len(t.slices),
                (IF t.wildCardIdx >= 0 THEN t.wildCardIdx ELSE Len(t.slices)) + 1,
                MatchPrefix(t, 1, IF t.wildCardIdx >= 0 THEN t.wildCardIdx ELSE Len(t.slices),
                            str, NoMatch.values).str,
                MatchPrefix(t, 1, IF t.wildCardIdx >= 0 THEN t.wildCardIdx ELSE Len(t.slices),
                            str, NoMatch.values).values).str

\* What Apply returns on an error.
ApplyErr(err) == [str |-> <<>>, err |-> err]

RECURSIVE ApplyLoop(_, _, _, _, _)
\* The loop of Apply from the slice i on; strb is the string built so far.
ApplyLoop(t, values, ignoreMissing, i, strb) ==
    IF i > Len(t.slices) THEN [str |-> strb, err |-> ErrNil]
    ELSE IF t.slices[i].staticStr # <<>>
    THEN ApplyLoop(t, values, ignoreMissing, i + 1, strb \o t.slices[i].staticStr)
    ELSE IF t.slices[i].valuePattern.name \in DOMAIN values
    THEN LET v == values[t.slices[i].valuePattern.name]
             re == t.slices[i].valuePattern.re
         IN IF re # NoRe
               /\ (FindStringIndex(re, v) = <<>>
                   \/ (FindStringIndex(re, v)[1] # 0 /\ FindStringIndex(re, v)[2] # Len(v)))
            THEN ApplyErr(ErrInvalidValue)
            ELSE ApplyLoop(t, values, ignoreMissing, i + 1, strb \o v)
    ELSE IF ignoreMissing
    THEN ApplyLoop(t, values, ignoreMissing, i + 1, strb)
    ELSE ApplyErr(ErrMissingValue)

\* Template.Apply: the string of the template with the values in the place
\* of its dynamic slices.
Apply(t, values, ignoreMissing) == ApplyLoop(t, values, ignoreMissing, 1, <<>>)

\* TryToParse(tmplStr).Match(str) is called and returns.
DoMatch ==
    /\ last.op = "none"
    /\ \E tmplStr \in MatchTemplateStrings, str \in MatchStrings :
        last' = [op |-> "Match", err |-> ErrNil, branch |-> "none", allNil |-> TRUE,
                 tmplStr |-> tmplStr, t |-> TryToParse(tmplStr).tmpl, str |-> str,
                 matched |-> Match(TryToParse(tmplStr).tmpl, str).matched,
                 values |-> Match(TryToParse(tmplStr).tmpl, str).values,
                 rest |-> IF Match(TryToParse(tmplStr).tmpl, str).matched
                             /\ Len(TryToParse(tmplStr).tmpl.slices) > 1
                          THEN MatchRest(TryToParse(tmplStr).tmpl, str) ELSE <<>>]
    /\ calls' = calls + 1
    /\ UNCHANGED <<tmpl, mh, papa, staticResources, patternResources,
                   wildcardResource, cfs, args, trace, argsPool, requests, handlers>>

\* The values of a successful TryToParse(tmplStr).Match(str) are applied:
\* Apply(values, false) is called and returns.
DoApply ==
    /\ last.op = "none"
    /\ \E tmplStr \in MatchTemplateStrings, str \in MatchStrings :
        /\ Match(TryToParse(tmplStr).tmpl, str).matched
        /\ last' = [op |-> "Apply",
                    err |-> Apply(TryToParse(tmplStr).tmpl,
                                  Match(TryToParse(tmplStr).tmpl, str).values, FALSE).err,
                    branch |-> "none", allNil |-> TRUE,
                    tmplStr |-> tmplStr, t |-> TryToParse(tmplStr).tmpl, str |-> str,
                    values |-> Match(TryToParse(tmplStr).tmpl, str).values,
                    applied |-> Apply(TryToParse(tmplStr).tmpl,
                                      Match(TryToParse(tmplStr).tmpl, str).values, FALSE).str]
    /\ calls' = calls + 1
    /\ UNCHANGED <<tmpl, mh, papa, staticResources, patternResources,
                   wildcardResource, cfs, args, trace, argsPool, requests, handlers>>

RECURSIVE Escaped(_, _)
\* The string with a backslash before each of its characters that is one of
\* chars.
Escaped(str, chars) ==
    IF str = <<>> THEN <<>>
    ELSE (IF Head(str) \in chars THEN <<backslash, Head(str)>> ELSE <<Head(str)>>)
            \o Escaped(Tail(str), chars)

RECURSIVE ContentLoop(_, _, _)
\* The loop of Content from the slice i on; vns are the value names whose
\* pattern is written already.
ContentLoop(t, i, vns) ==
    IF i > Len(t.slices) THEN <<>>
    ELSE IF t.slices[i].staticStr # <<>>
    THEN Escaped(t.slices[i].staticStr, {"{", "}"}) \o ContentLoop(t, i + 1, vns)
    ELSE IF t.slices[i].valuePattern.re # NoRe /\ t.slices[i].valuePattern.name \notin vns
    THEN <<"{">> \o Escaped(t.slices[i].valuePattern.name, {":"})
            \o <<":">> \o t.slices[i].valuePattern.re.src \o <<"}">>
            \o ContentLoop(t, i + 1, vns \cup {t.slices[i].valuePattern.name})
    ELSE <<"{">> \o Escaped(t.slices[i].valuePattern.name, {":"}) \o <<"}">>
            \o ContentLoop(t, i + 1, vns)

\* Template.Content: the template string of the slices, without the name.
\* The pattern of a value pattern is the source of its regexp, and is
\* written for the first slice of a value name only.
Content(t) ==
    (IF t.name = <<>> /\ Len(t.slices) # 0 /\ t.slices[1].staticStr # <<>>
        /\ Head(t.slices[1].staticStr) = "$"
     THEN <<backslash>> ELSE <<>>) \o ContentLoop(t, 1, {})

\* Template.String: the template string, "$name:" before the content when
\* the template has a name.
String(t) ==
    (IF t.name # <<>> THEN <<"$">> \o Escaped(t.name, {":"}) \o <<":">> ELSE <<>>)
        \o Content(t)

\* The template strings that parse.
ParsedTemplateStrings == {s \in TemplateStrings : TryToParse(s).err = ErrNil}

\* String() of the template of TryToParse(tmplStr) is called and its result
\* is parsed again.
DoString ==
    /\ last.op = "none"
    /\ \E tmplStr \in ParsedTemplateStrings :
        last' = [op |-> "String", err |-> TryToParse(String(TryToParse(tmplStr).tmpl)).err,
                 branch |-> "none", allNil |-> TRUE,
                 tmplStr |-> tmplStr, t |-> TryToParse(tmplStr).tmpl,
                 string |-> String(TryToParse(tmplStr).tmpl),
                 again |-> TryToParse(String(TryToParse(tmplStr).tmpl)).tmpl]
    /\ calls' = calls + 1
    /\ UNCHANGED <<tmpl, mh, papa, staticResources, patternResources,
                   wildcardResource, cfs, args, trace, argsPool, requests, handlers>>

\* The template strings of the templates that are compared, with and
\* without a template name.
SimilarTemplateStrings ==
    {pre \o s : pre \in {<<>>, <<"$", "n", ":">>},
                s \in {m \in MatchTemplateStrings : Len(m) <= 2 * MaxStr}}

\* TryToParse(a).SimilarityWith(TryToParse(b)) and the call the other way
\* round are made; -1 is a call that panics.
DoSimilarityWith ==
    /\ last.op = "none"
    /\ \E a, b \in SimilarTemplateStrings :
        last' = [op |-> "SimilarityWith", err |-> ErrNil, branch |-> "none",
                 allNil |-> TRUE,
                 a |-> TryToParse(a).tmpl, b |-> TryToParse(b).tmpl,
                 similarity |-> SimilarityWith(TryToParse(a).tmpl, TryToParse(b).tmpl),
                 reverse |-> SimilarityWith(TryToParse(b).tmpl, TryToParse(a).tmpl)]
    /\ calls' = calls + 1
    /\ UNCHANGED <<tmpl, mh, papa, staticResources, patternResources,
                   wildcardResource, cfs, args, trace, argsPool, requests, handlers>>

NextParse ==
    \/ DoTryToParse
    \/ DoMatch
    \/ DoApply
    \/ DoString
    \/ DoSimilarityWith

SpecParse == InitParse /\ [][NextParse]_vars

\* C22: a template without a wildcard that has more than one slice matches
\* only a whole string: when Match succeeds the slices have consumed all of
\* the string and nothing is left over after the last slice.
C22_MatchConsumesTheWholeString ==
    (/\ last.op = "Match" /\ last.matched
     /\ last.t.wildCardIdx = -1 /\ Len(last.t.slices) > 1) => last.rest = <<>>

\* C23: a template with a wildcard and other slices matches only when the
\* slices left and right of the wildcard leave a remainder that is not
\* empty, and the values bind the wildcard's value name to the remainder.
C23_WildcardTakesANonEmptyRemainder ==
    (/\ last.op = "Match" /\ last.matched
     /\ last.t.wildCardIdx >= 0 /\ Len(last.t.slices) > 1) =>
        /\ last.rest # <<>>
        /\ last.t.slices[last.t.wildCardIdx + 1].valuePattern.name \in DOMAIN last.values
        /\ last.values[last.t.slices[last.t.wildCardIdx + 1].valuePattern.name] = last.rest

\* The value names of the dynamic slices, one for each slice.
HasRepeatedValueNames(t) ==
    \E i, j \in DynamicIdxs(t) :
        i # j /\ t.slices[i].valuePattern.name = t.slices[j].valuePattern.name

\* C24: for a template without repeated value names, applying the values of
\* a successful Match(s) succeeds and gives back exactly s.
C24_ApplyGivesBackTheMatchedString ==
    (last.op = "Apply" /\ ~HasRepeatedValueNames(last.t)) =>
        last.err = ErrNil /\ last.applied = last.str

\* C25: the string of a parsed template parses, and to a template equal to
\* the first one: the same name, slices, wildcard index and regexp sources,
\* so that the two are TheSame.
C25_StringParsesToTheSameTemplate ==
    last.op = "String" =>
        /\ last.err = ErrNil
        /\ last.again = last.t
        /\ SimilarityWith(last.again, last.t) = TheSame

\* C26: SimilarityWith returns for any two parsed templates, and returns the
\* same value whichever of the two is the receiver.
C26_SimilarityIsSymmetricAndTotal ==
    last.op = "SimilarityWith" =>
        last.similarity # -1 /\ last.similarity = last.reverse

\* ------------------------------------------------------------- split runs

http == <<"h", "t", "t", "p", ":", "/", "/">>

https == <<"h", "t", "t", "p", "s", ":", "/", "/">>

\* strings.TrimPrefix
TrimPrefix(str, pre) ==
    IF HasPrefix(str, pre) THEN SubSeq(str, Len(pre) + 1, Len(str)) ELSE str

\* The end of splitHostAndPath: a lone "/" after a host is the trailing
\* slash of the host, and a path longer than "/" loses its trailing slash.
SplitEnd(hostTmplStr, pathTmplStr, secure) ==
    IF hostTmplStr # <<>> /\ pathTmplStr = <<"/">>
    THEN [host |-> hostTmplStr, path |-> <<>>, secure |-> secure, tslash |-> TRUE,
          err |-> ErrNil]
    ELSE IF hostTmplStr = <<>> /\ pathTmplStr = <<>>
    THEN [host |-> <<>>, path |-> <<>>, secure |-> FALSE, tslash |-> FALSE,
          err |-> ErrInvalidTemplate]
    ELSE IF Len(pathTmplStr) - 1 > 0 /\ pathTmplStr[Len(pathTmplStr)] = "/"
    THEN [host |-> hostTmplStr, path |-> Str(pathTmplStr, 0, Len(pathTmplStr) - 1),
          secure |-> secure, tslash |-> TRUE, err |-> ErrNil]
    ELSE [host |-> hostTmplStr, path |-> pathTmplStr, secure |-> secure,
          tslash |-> FALSE, err |-> ErrNil]

\* splitHostAndPath of a URL template without its scheme: what comes before
\* the first "/" of an absolute URL template is the host template.
SplitAt(urlTmplStr, absolute, secure) ==
    IF absolute
    THEN IF IndexByteFrom(urlTmplStr, "/", 0) < 0
         THEN [host |-> urlTmplStr, path |-> <<>>, secure |-> secure, tslash |-> FALSE,
               err |-> ErrNil]
         ELSE SplitEnd(Str(urlTmplStr, 0, IndexByteFrom(urlTmplStr, "/", 0)),
                       Str(urlTmplStr, IndexByteFrom(urlTmplStr, "/", 0), Len(urlTmplStr)),
                       secure)
    ELSE SplitEnd(<<>>, urlTmplStr, secure)

\* splitHostAndPath: the host and path templates of a URL template, whether
\* it is secure and whether it has a trailing slash.
splitHostAndPath(urlTmplStr) ==
    IF urlTmplStr = <<>>
    THEN [host |-> <<>>, path |-> <<>>, secure |-> FALSE, tslash |-> FALSE,
          err |-> ErrInvalidTemplate]
    ELSE IF Len(TrimPrefix(urlTmplStr, https)) < Len(urlTmplStr)
    THEN SplitAt(TrimPrefix(urlTmplStr, https), TRUE, TRUE)
    ELSE IF Len(TrimPrefix(urlTmplStr, http)) < Len(urlTmplStr)
    THEN SplitAt(TrimPrefix(urlTmplStr, http), TRUE, FALSE)
    ELSE SplitAt(urlTmplStr, FALSE, FALSE)

\* The longest host and path of the URL templates of the runs.
MaxURL == 4

\* The URL templates: a scheme or none, then a host and a path of "a", "h"
\* and slashes, or nothing.
URLTemplates ==
    {scheme \o rest :
        scheme \in {<<>>, http, https},
        rest \in UNION {[1..k -> {"/", "a", "h"}] : k \in 0..MaxURL}}

\* splitHostAndPath(urlTmplStr) is called and returns.
DoSplitHostAndPath ==
    /\ last.op = "none"
    /\ \E urlTmplStr \in URLTemplates :
        last' = [op |-> "splitHostAndPath", err |-> splitHostAndPath(urlTmplStr).err,
                 branch |-> "none", allNil |-> TRUE,
                 urlTmplStr |-> urlTmplStr,
                 host |-> splitHostAndPath(urlTmplStr).host,
                 path |-> splitHostAndPath(urlTmplStr).path,
                 secure |-> splitHostAndPath(urlTmplStr).secure,
                 tslash |-> splitHostAndPath(urlTmplStr).tslash]
    /\ calls' = calls + 1
    /\ UNCHANGED <<tmpl, mh, papa, staticResources, patternResources,
                   wildcardResource, cfs, args, trace, argsPool, requests, handlers>>

NextSplit ==
    \/ DoSplitHostAndPath

SpecSplit == InitParse /\ [][NextSplit]_vars

\* The URL template without its scheme.
WithoutScheme(urlTmplStr) ==
    IF HasPrefix(urlTmplStr, https) THEN TrimPrefix(urlTmplStr, https)
    ELSE TrimPrefix(urlTmplStr, http)

\* C27: splitHostAndPath returns a host only for a URL template that starts
\* with http:// or https://, and secure iff it starts with https://; it
\* rejects the empty URL template; a lone "/" after a host becomes the
\* trailing slash with an empty path, and one trailing "/" of a path longer
\* than "/" is stripped and becomes the trailing slash, nothing else of the
\* template being changed; it never succeeds with both the host and the
\* path empty.
C27_SplitHostAndPath ==
    last.op = "splitHostAndPath" =>
        /\ last.host # <<>> =>
               HasPrefix(last.urlTmplStr, http) \/ HasPrefix(last.urlTmplStr, https)
        /\ last.secure <=> HasPrefix(last.urlTmplStr, https)
        /\ last.urlTmplStr = <<>> => last.err = ErrInvalidTemplate
        /\ last.err = ErrNil =>
            /\ last.host \o last.path \o (IF last.tslash THEN <<"/">> ELSE <<>>)
                   = WithoutScheme(last.urlTmplStr)
            /\ (last.host # <<>> /\ WithoutScheme(last.urlTmplStr) = last.host \o <<"/">>)
                   => last.tslash /\ last.path = <<>>
            /\ (/\ Len(WithoutScheme(last.urlTmplStr)) - Len(last.host) > 1
                /\ HasSuffix(WithoutScheme(last.urlTmplStr), <<"/">>)) => last.tslash
            /\ last.host # <<>> \/ last.path # <<>>

\* ------------------------------------------------------------- again runs

ErrEmptyPathTemplate == "ErrEmptyPathTemplate"

\* RegisteredResource with a path template without a host; pss is <<>> for
\* "", RootPath for "/", else the sequence of its segments.  The resource
\* found must be compatible with the scheme and the trailing slash of the
\* template; one that was never configured is configured with them.
RegisteredResource(S, rb, pss, secure, tslash) ==
    IF pss = <<>> THEN [S |-> S, err |-> ErrEmptyPathTemplate, r |-> NIL]
    ELSE IF pss = RootPath THEN [S |-> S, err |-> ErrNonRouterParent, r |-> NIL]
    ELSE IF registeredResource(S, rb, pss).err # ErrNil
    THEN [S |-> S, err |-> registeredResource(S, rb, pss).err, r |-> NIL]
    ELSE IF registeredResource(S, rb, pss).r = NIL
    THEN [S |-> S, err |-> ErrNil, r |-> NIL]
    ELSE IF configCompatibility(S, registeredResource(S, rb, pss).r,
                                secure, tslash, NilCfs).err # ErrNil
    THEN [S |-> S,
          err |-> configCompatibility(S, registeredResource(S, rb, pss).r,
                                      secure, tslash, NilCfs).err,
          r |-> NIL]
    ELSE [S |-> configCompatibility(S, registeredResource(S, rb, pss).r,
                                    secure, tslash, NilCfs).S,
          err |-> ErrNil, r |-> registeredResource(S, rb, pss).r]

\* No call with a path template was made yet.
NoCall ==
    [op |-> "none", err |-> ErrNil, rb |-> NIL, path |-> <<>>, secure |-> FALSE,
     tslash |-> FALSE, r |-> NIL]

\* The call with a path template that was made last, if the last call was
\* one.
LastCall ==
    IF last.op \in {"Resource", "RegisteredResource"}
    THEN [op |-> last.op, err |-> last.err, rb |-> last.rb, path |-> last.path,
          secure |-> last.secure, tslash |-> last.tslash, r |-> last.r]
    ELSE NoCall

\* The call op(path) on rb returned res: the tree is what the call left; the
\* call is remembered with the call before it and with the nodes that
\* existed before it.
ReturnsTo(op, rb, path, secure, tslash, res) ==
    /\ res.err \notin {Diverge, OutOfNodes}
    /\ calls < MaxCalls
    /\ calls' = calls + 1
    /\ tmpl' = res.S.tmpl
    /\ mh' = res.S.mh
    /\ papa' = res.S.papa
    /\ staticResources' = res.S.staticResources
    /\ patternResources' = res.S.patternResources
    /\ wildcardResource' = res.S.wildcardResource
    /\ cfs' = res.S.cfs
    /\ last' = [op |-> op, err |-> res.err, branch |-> "none", allNil |-> last.allNil,
                rb |-> rb, path |-> path, secure |-> secure, tslash |-> tslash,
                r |-> res.r, before |-> Live(Tree), prev |-> LastCall]
    /\ UNCHANGED <<args, trace, argsPool, requests, handlers>>

\* Resource(path) is called on a host or a resource, with an http or https
\* template with or without a trailing slash, while a call can follow it.
DoResourceAt ==
    \E rb \in Receivers(Tree), path \in Paths, secure, tslash \in BOOLEAN :
        /\ calls + 1 < MaxCalls
        /\ ReturnsTo("Resource", rb, path, secure, tslash,
                     Resource(Tree, rb, path, secure, tslash))

\* Resource is called again, on the receiver and with the path template of
\* the successful Resource or RegisteredResource call before.
DoResourceAgain ==
    /\ last.op \in {"Resource", "RegisteredResource"} /\ last.err = ErrNil
    /\ ReturnsTo("Resource", last.rb, last.path, last.secure, last.tslash,
                 Resource(Tree, last.rb, last.path, last.secure, last.tslash))

\* RegisteredResource is called on the receiver and with the path template
\* of the successful Resource call before.
DoRegisteredResourceAgain ==
    /\ last.op = "Resource" /\ last.err = ErrNil
    /\ ReturnsTo("RegisteredResource", last.rb, last.path, last.secure, last.tslash,
                 RegisteredResource(Tree, last.rb, last.path, last.secure, last.tslash))

NextAgain ==
    \/ DoResourceAt
    \/ DoResourceAgain
    \/ DoRegisteredResourceAgain
    \/ DoRegisterResource

SpecAgain == Init /\ [][NextAgain]_vars

\* The call made last has the receiver and the path template of the call
\* before it, which was a successful Resource.
Again ==
    /\ last.op \in {"Resource", "RegisteredResource"}
    /\ last.prev.op = "Resource" /\ last.prev.err = ErrNil
    /\ last.rb = last.prev.rb /\ last.path = last.prev.path
    /\ last.secure = last.prev.secure /\ last.tslash = last.prev.tslash

\* C28: after a successful Resource(p), Resource(p) on the same receiver
\* succeeds again, returns the same node and creates no node, and
\* RegisteredResource(p) returns that node too.
C28_ResourceIsIdempotent ==
    Again =>
        /\ last.err = ErrNil
        /\ last.r = last.prev.r
        /\ last.op = "Resource" => Live(Tree) = last.before

\* Resource(p) created two nodes below a resource and was called again.
C28_Witness ==
    /\ Again /\ last.op = "Resource"
    /\ last.rb # Host /\ last.r \in DummyNodes /\ papa[last.r] \in DummyNodes

\* ------------------------------------------------------------- iteration runs

\* The longest path that is iterated over, and the number of calls made on
\* an iterator.
MaxPath == 4

MaxIter == 6

\* The paths iterated over: "a", "%" and slashes.
IterPaths == UNION {[1..k -> {slash, "a", percent}] : k \in 0..MaxPath}

\* The Args of a request for a path, raw or not, before its first segment,
\* and a path segment iterator over the same path.
InitIter ==
    \E path \in IterPaths, raw \in BOOLEAN :
        /\ tmpl = [n \in Nodes |-> NoTmpl]
        /\ mh = [n \in Nodes |-> FALSE]
        /\ papa = [n \in Nodes |-> NIL]
        /\ staticResources = [n \in Nodes |-> EmptyMap]
        /\ patternResources = [n \in Nodes |-> <<>>]
        /\ wildcardResource = [n \in Nodes |-> NIL]
        /\ cfs = [n \in Nodes |-> {}]
        /\ last = [op |-> "none", err |-> ErrNil, branch |-> "none", allNil |-> TRUE,
                   psi |-> path, n |-> 0]
        /\ calls = 0
        /\ args = Args(path, raw, 0, FALSE, FALSE)
        /\ trace = NoTrace
        /\ argsPool = {}
        /\ requests = <<>>
        /\ handlers = NoHandlers

\* args.nextPathSegment() is called and returns; before is the index it
\* found.
DoNextPathSegment ==
    /\ calls < MaxIter
    /\ calls' = calls + 1
    /\ args' = nextPathSegment(args).args
    /\ last' = [op |-> "nextPathSegment",
                err |-> IF nextPathSegment(args).err THEN ErrInvalidValue ELSE ErrNil,
                branch |-> "none", allNil |-> TRUE, psi |-> last.psi, n |-> last.n,
                before |-> args.currentPathSegmentIdx, ps |-> nextPathSegment(args).ps]
    /\ UNCHANGED <<tmpl, mh, papa, staticResources, patternResources,
                   wildcardResource, cfs, trace, argsPool, requests, handlers>>

\* psi.nextSegment() is called and returns; before is the path it found.
DoNextSegment ==
    /\ last.n < MaxIter
    /\ last' = [op |-> "nextSegment", err |-> ErrNil, branch |-> "none", allNil |-> TRUE,
                psi |-> nextSegment(last.psi).path, n |-> last.n + 1,
                before |-> last.psi, ps |-> nextSegment(last.psi).segment]
    /\ UNCHANGED <<tmpl, mh, papa, staticResources, patternResources,
                   wildcardResource, cfs, calls, args, trace, argsPool, requests, handlers>>

NextIter ==
    \/ DoNextPathSegment
    \/ DoNextSegment

SpecIter == InitIter /\ [][NextIter]_vars

\* C29: a call of nextPathSegment before the index is the path length
\* moves the index forward, never past the path length, so after k calls
\* the index is k at least or the path length; at the path length
\* reachedTheLastPathSegment is true, and a call returns the empty segment
\* and leaves the index as it is.  A call of nextSegment on a path that is
\* not empty leaves a shorter path, and on the empty path it returns the
\* empty segment.
C29_SegmentIterationTerminates ==
    /\ args.currentPathSegmentIdx <= Len(args.path)
    /\ args.currentPathSegmentIdx >= calls \/ args.currentPathSegmentIdx = Len(args.path)
    /\ reachedTheLastPathSegment(args) <=> args.currentPathSegmentIdx = Len(args.path)
    /\ last.op = "nextPathSegment" =>
           IF last.before = Len(args.path)
           THEN last.ps = <<>> /\ last.err = ErrNil /\ args.currentPathSegmentIdx = last.before
           ELSE args.currentPathSegmentIdx > last.before
    /\ Len(last.psi) + last.n <= Len(args.path) \/ last.psi = <<>>
    /\ last.op = "nextSegment" =>
           IF last.before = <<>> THEN last.ps = <<>> /\ last.psi = <<>>
           ELSE Len(last.psi) < Len(last.before)

\* A path of two segments was iterated to its end and nextPathSegment was
\* called once more, and the path segment iterator was exhausted too.
C29_Witness ==
    /\ last.op = "nextPathSegment"
    /\ args.path = <<slash, "a", slash, "a">>
    /\ last.before = Len(args.path)
    /\ calls = 4 /\ last.n = 3 /\ last.psi = <<>>

\* ------------------------------------------------------------- segment runs

\* The number of calls with a path template in a run.
MaxPathCalls == 2

\* The path template with a leading slash.
Slashed(path) == IF path[1] # slash THEN <<slash>> \o path ELSE path

\* The path pathSegmentResources gets, as the sequence of its segment
\* templates; the segments of the runs are static.
PathTemplates(sp) == IF sp.root THEN RootPath ELSE StaticTemplates(sp.pss)

\* Resource and ResourceUsingConfig with the URL template as a string: sh is
\* what splitHostAndPath returned for it, argCfs is NilCfs for Resource.
ResourceBySplit(S, rb, sh, argCfs) ==
    IF sh.err # ErrNil THEN Found(S, sh.err, NIL)
    ELSE IF sh.host # <<>> THEN Found(S, ErrNonRouterParent, NIL)
    ELSE IF sh.path = <<>> THEN Found(S, ErrEmptyPathTemplate, NIL)
    ELSE IF argCfs # NilCfs /\ flagRedirectInsecure \in argCfs /\ ~sh.secure
    THEN Found(S, ErrConflictingSecurity, NIL)
    ELSE IF splitPathSegments(Slashed(sh.path)).err # ErrNil
    THEN Found(S, splitPathSegments(Slashed(sh.path)).err, NIL)
    ELSE ResourceAt(S, rb, PathTemplates(splitPathSegments(Slashed(sh.path))),
                    sh.secure, sh.tslash, argCfs)

\* RegisterResourceUnder of a resource without a URL template, with the
\* prefix path as a string.
RegisterResourceUnderPath(S, rb, prefixPath, r, ord) ==
    IF RegisterChecks(S, rb, r, ord) # ErrNil THEN Fail(S, RegisterChecks(S, rb, r, ord))
    ELSE IF prefixPath = <<slash>> /\ rb # Host THEN Fail(S, ErrNonRouterParent)
    ELSE IF prefixPath = <<slash>> \/ prefixPath = <<>>
    THEN keepResourceOrItsChildResources(S, rb, r, ord, Fuel)
    ELSE IF splitPathSegments(Slashed(prefixPath)).err # ErrNil
    THEN Fail(S, splitPathSegments(Slashed(prefixPath)).err)
    ELSE registerResourceUnder(S, rb, PathTemplates(splitPathSegments(Slashed(prefixPath))),
                               r, ord)

\* The path templates of the runs: with and without empty segments, a
\* leading slash and a trailing slash.
SegmentPaths ==
    {<<slash, "a">>, <<slash, "a", slash, "b">>, <<"a", slash, "b">>,
     <<slash, "a", slash>>,
     <<slash, slash>>, <<slash, slash, "a">>, <<slash, "a", slash, slash>>,
     <<slash, "a", slash, slash, "b">>, <<"a", slash, slash, "b">>,
     <<slash, "a", slash, slash, slash, "b">>,
     <<slash, "a", slash, slash, "b", slash>>,
     <<slash, "a", slash, "b", slash, slash, "a">>}

InitSegments ==
    /\ tmpl = HostAlone.tmpl
    /\ mh = HostAlone.mh
    /\ papa = HostAlone.papa
    /\ staticResources = HostAlone.staticResources
    /\ patternResources = HostAlone.patternResources
    /\ wildcardResource = HostAlone.wildcardResource
    /\ cfs = HostAlone.cfs
    /\ last = [op |-> "none", err |-> ErrNil, branch |-> "none", allNil |-> TRUE]
    /\ calls = 0
    /\ args = NoArgs
    /\ trace = NoTrace
    /\ argsPool = {}
    /\ requests = <<>>
    /\ handlers = NoHandlers

\* The call op with the path template on rb returned res, or panicked: the
\* tree is what the call left, and the call is remembered with the nodes
\* that existed before it.
ReturnsOf(op, rb, path, res) ==
    /\ res.err \notin {Diverge, OutOfNodes}
    /\ calls < MaxPathCalls
    /\ calls' = calls + 1
    /\ tmpl' = res.S.tmpl
    /\ mh' = res.S.mh
    /\ papa' = res.S.papa
    /\ staticResources' = res.S.staticResources
    /\ patternResources' = res.S.patternResources
    /\ wildcardResource' = res.S.wildcardResource
    /\ cfs' = res.S.cfs
    /\ last' = [op |-> op, err |-> res.err, branch |-> "none", allNil |-> last.allNil,
                rb |-> rb, path |-> path, before |-> Live(Tree)]
    /\ UNCHANGED <<args, trace, argsPool, requests, handlers>>

\* Resource(path) is called on the host or on the resource a.
DoResourcePath ==
    \E rb \in {Host, 1}, path \in SegmentPaths :
        ReturnsOf("Resource", rb, path,
                  ResourceBySplit(Tree, rb, splitHostAndPath(path), NilCfs))

\* ResourceUsingConfig(path, Config{}) is called on the host or on the
\* resource a.
DoResourceUsingConfigPath ==
    \E rb \in {Host, 1}, path \in SegmentPaths :
        ReturnsOf("ResourceUsingConfig", rb, path,
                  ResourceBySplit(Tree, rb, splitHostAndPath(path), asFlags({})))

\* RegisterResourceUnder(prefixPath, b) is called on the host or on the
\* resource a.
DoRegisterResourceUnderPath ==
    \E rb \in {Host, 1}, path \in SegmentPaths :
        ReturnsOf("RegisterResourceUnder", rb, path,
                  RegisterResourceUnderPath(Tree, rb, path, 2, <<users, accounts>>))

NextSegments ==
    \/ DoResourcePath
    \/ DoResourceUsingConfigPath
    \/ DoRegisterResourceUnderPath

SpecSegments == InitSegments /\ [][NextSegments]_vars

\* The path template has an empty segment: two slashes next to each other.
HasEmptySegment(path) ==
    \E i \in 1..Len(path) - 1 : path[i] = slash /\ path[i + 1] = slash

\* C30: a path template with an empty path segment, two or more slashes in
\* a row anywhere in it, is rejected with ErrEmptyPathSegmentTemplate by
\* splitPathSegments and so by Resource, ResourceUsingConfig and
\* RegisterResourceUnder, and no node is created for it.
C30_EmptySegmentIsRejected ==
    (last.op \in {"Resource", "ResourceUsingConfig", "RegisterResourceUnder"}
     /\ HasEmptySegment(last.path)) =>
        /\ splitPathSegments(last.path).err = ErrEmptyPathSegmentTemplate
        /\ last.err = ErrEmptyPathSegmentTemplate
        /\ Live(Tree) = last.before

\* ------------------------------------------------------------- URL runs

\* The number of RegisterResource calls with a URL template in a run.
MaxURLCalls == 2

\* {a:^[a]+}x, x{a:^[a]+} and {b:^[a]+}x, as parsing returns them.
tAX == Template("a", <<DynamicSlice("a", Regex({"a"}, TRUE, FALSE)), StaticSlice(<<"x">>)>>, -1)

tXA == Template("a", <<StaticSlice(<<"x">>), DynamicSlice("a", Regex({"a"}, TRUE, FALSE))>>, -1)

tBX == Template("b", <<DynamicSlice("b", Regex({"a"}, TRUE, FALSE)), StaticSlice(<<"x">>)>>, -1)

RECURSIVE ParentsOf(_, _, _)
\* The parent walk of resourcesInThePath from n up, the top first.
ParentsOf(S, n, fuel) ==
    IF n = NIL \/ fuel = 0 THEN <<>>
    ELSE Append(ParentsOf(S, S.papa[n], fuel - 1), n)

\* resourcesInThePath: the host and the resources from the top of the tree
\* down to rb.
resourcesInThePath(S, rb) == ParentsOf(S, rb, Fuel)

\* validateHostTmpl on the responder at the top of the tree; hostTmpl is
\* NoTmpl for "" and else the parsed host template.  A resource at the top
\* has no host.
validateHostTmpl(S, top, hostTmpl) ==
    IF hostTmpl = NoTmpl THEN ErrNil
    ELSE IF top # Host THEN ErrConflictingHost
    ELSE IF IsWildcard(hostTmpl) THEN ErrWildcardHostTemplate
    ELSE IF SimilarityWith(S.tmpl[Host], hostTmpl) = -1 THEN Panic
    ELSE SimilarityErr(SimilarityWith(S.tmpl[Host], hostTmpl))

\* The result of validateURL: the segments that remain, and the error.
Validated(rest, err) == [rest |-> IF err = ErrNil THEN rest ELSE <<>>, err |-> err]

RECURSIVE ValidateLoop(_, _, _, _)
\* The loop of validateURL over the resources from index i on; pss is what is
\* left of the path template.
ValidateLoop(S, resources, pss, i) ==
    IF i > Len(resources) THEN Validated(pss, ErrNil)
    ELSE IF pss = <<>> THEN Validated(<<>>, ErrConflictingPath)
    ELSE IF SimilarityWith(S.tmpl[resources[i]], Head(pss)) = -1
    THEN Validated(<<>>, Panic)
    ELSE IF SimilarityWith(S.tmpl[resources[i]], Head(pss)) # TheSame
    THEN Validated(<<>>, ErrConflictingPathSegment)
    ELSE ValidateLoop(S, resources, Tail(pss), i + 1)

\* The resources the path template is compared with: the host is not one.
BelowTheHost(resources) ==
    IF resources[1] = Host THEN Tail(resources) ELSE resources

\* validateURL; the path template is the sequence of its segment templates
\* (<<>> for "" and for "/").
validateURL(S, rb, hostTmpl, pss) ==
    IF validateHostTmpl(S, resourcesInThePath(S, rb)[1], hostTmpl) # ErrNil
    THEN Validated(<<>>, validateHostTmpl(S, resourcesInThePath(S, rb)[1], hostTmpl))
    ELSE IF resourcesInThePath(S, rb) = <<Host>> /\ pss = <<>>
    THEN Validated(<<>>, ErrNil)
    ELSE ValidateLoop(S, BelowTheHost(resourcesInThePath(S, rb)), pss, 1)

\* RegisterResource of a resource with the URL template urlt.
RegisterResourceOfURL(S, rb, r, ord, urlt) ==
    IF RegisterChecks(S, rb, r, ord) # ErrNil THEN Fail(S, RegisterChecks(S, rb, r, ord))
    ELSE IF validateURL(S, rb, urlt.Host, urlt.PrefixPath).err # ErrNil
    THEN Fail(S, validateURL(S, rb, urlt.Host, urlt.PrefixPath).err)
    ELSE IF validateURL(S, rb, urlt.Host, urlt.PrefixPath).rest # <<>>
    THEN registerResourceUnder(S, rb, validateURL(S, rb, urlt.Host, urlt.PrefixPath).rest,
                               r, ord)
    ELSE keepResourceOrItsChildResources(S, rb, r, ord, Fuel)

\* The host templates of the URL templates: none, h, $n:h, g, {id}.
URLHosts ==
    {NoTmpl, tHost, Template("n", <<StaticSlice(<<"h">>)>>, -1),
     Template("", <<StaticSlice(<<"g">>)>>, -1), tId}

\* The prefix paths of the URL templates.
URLPrefixes ==
    {<<>>, <<tUsers>>, <<tUUsers>>, <<tAccounts>>, <<tAX>>,
     <<tUsers, tAX>>, <<tUsers, tXA>>, <<tUsers, tBX>>, <<tUsers, tAccounts>>,
     <<tUsers, tAX, tAccounts>>, <<tAccounts, tAX>>}

\* The URL templates the resources are constructed with: every prefix path
\* without a host template, and every host template with no prefix path and
\* with the prefix path of the resource 4.
ResourceURLs ==
    [Host : {NoTmpl}, PrefixPath : URLPrefixes]
        \cup [Host : URLHosts, PrefixPath : {<<>>, <<tUsers, tAX>>}]

\* The tree after h.Resource("/users/{a:[a]+}x"), which creates the
\* resources 3 and 4, with the resource 1 (accounts) and the resource 2
\* (users) not registered.
URLTree ==
    Resource([Unregistered EXCEPT
                 !.tmpl = [n \in Nodes |-> IF n = Host THEN tHost
                                           ELSE IF n = 1 THEN tAccounts
                                           ELSE IF n = 2 THEN tUsers
                                           ELSE NoTmpl],
                 !.mh = [n \in Nodes |-> n \in {Host, 1, 2}]],
             Host, <<tUsers, tAX>>, FALSE, FALSE).S

InitURL ==
    /\ tmpl = URLTree.tmpl
    /\ mh = URLTree.mh
    /\ papa = URLTree.papa
    /\ staticResources = URLTree.staticResources
    /\ patternResources = URLTree.patternResources
    /\ wildcardResource = URLTree.wildcardResource
    /\ cfs = URLTree.cfs
    /\ last = [op |-> "none", err |-> ErrNil, branch |-> "none", allNil |-> TRUE]
    /\ calls = 0
    /\ args = NoArgs
    /\ trace = NoTrace
    /\ argsPool = {}
    /\ requests = <<>>
    /\ handlers = NoHandlers

\* rb.RegisterResource(r) is called for a resource r that was constructed
\* with a URL template; the call is remembered with the tree before it and
\* with what the checks before validateURL returned.
DoRegisterResourceOfURL ==
    \E rb \in Live(Tree), r \in PoolNodes, urlt \in ResourceURLs :
        LET res == RegisterResourceOfURL(Tree, rb, r, <<users, accounts>>, urlt)
        IN /\ res.err \notin {Diverge, OutOfNodes}
           /\ calls < MaxURLCalls
           /\ calls' = calls + 1
           /\ tmpl' = res.S.tmpl
           /\ mh' = res.S.mh
           /\ papa' = res.S.papa
           /\ staticResources' = res.S.staticResources
           /\ patternResources' = res.S.patternResources
           /\ wildcardResource' = res.S.wildcardResource
           /\ cfs' = res.S.cfs
           /\ last' = [op |-> "RegisterResourceOfURL", err |-> res.err, branch |-> "none",
                       allNil |-> last.allNil, rb |-> rb, r |-> r, urlt |-> urlt,
                       checks |-> RegisterChecks(Tree, rb, r, <<users, accounts>>),
                       prev |-> Tree]
           /\ UNCHANGED <<args, trace, argsPool, requests, handlers>>

NextURL == DoRegisterResourceOfURL

SpecURL == InitURL /\ [][NextURL]_vars

\* The host template of the URL template is the template of the host above
\* the receiver, or the URL template has none.
HostIsTheSame(S, rb, urlt) ==
    \/ urlt.Host = NoTmpl
    \/ /\ resourcesInThePath(S, rb)[1] = Host
       /\ ~IsWildcard(urlt.Host)
       /\ SimilarityWith(S.tmpl[Host], urlt.Host) = TheSame

\* The first resource on the chain down to the receiver that the prefix
\* path does not fit, or 0: the prefix ends before it or its segment is not
\* TheSame as the template of the resource.
FirstConflict(S, rb, urlt) ==
    LET chain == BelowTheHost(resourcesInThePath(S, rb))
        bad == {i \in 1..Len(chain) :
                   \/ i > Len(urlt.PrefixPath)
                   \/ SimilarityWith(S.tmpl[chain[i]], urlt.PrefixPath[i]) # TheSame}
    IN IF bad = {} THEN 0 ELSE CHOOSE i \in bad : \A j \in bad : i <= j

\* The segment templates from below rb down to the parent of r.
RECURSIVE TemplatesBetween(_, _, _, _)
TemplatesBetween(S, rb, n, fuel) ==
    IF n = rb \/ n = NIL \/ fuel = 0 THEN <<>>
    ELSE Append(TemplatesBetween(S, rb, S.papa[n], fuel - 1), S.tmpl[n])

\* C31: RegisterResource of a resource with a URL template succeeds only if
\* the host template of the URL is TheSame as the template of the host above
\* the receiver and the i-th prefix segment is TheSame as the template of the
\* i-th resource from below the host down to the receiver.  When the checks
\* before the validation pass, a host template without a host above is
\* rejected with ErrConflictingHost, a wildcard host template with
\* ErrWildcardHostTemplate, a prefix that ends too early with
\* ErrConflictingPath and a segment that is not TheSame with
\* ErrConflictingPathSegment; after a success the segments left over lead
\* from the receiver to the parent of the resource.
C31_URLTemplateIsValidated ==
    last.op = "RegisterResourceOfURL" =>
        LET P == last.prev
            chain == BelowTheHost(resourcesInThePath(P, last.rb))
            k == FirstConflict(P, last.rb, last.urlt)
        IN /\ last.err = ErrNil =>
                /\ HostIsTheSame(P, last.rb, last.urlt)
                /\ k = 0
                /\ Len(TemplatesBetween(Tree, last.rb, papa[last.r], Fuel))
                      = Len(last.urlt.PrefixPath) - Len(chain)
                /\ \A i \in 1..Len(last.urlt.PrefixPath) - Len(chain) :
                      SimilarityWith(TemplatesBetween(Tree, last.rb, papa[last.r], Fuel)[i],
                                     last.urlt.PrefixPath[Len(chain) + i]) = TheSame
           /\ (last.checks = ErrNil /\ last.urlt.Host # NoTmpl) =>
                /\ resourcesInThePath(P, last.rb)[1] # Host => last.err = ErrConflictingHost
                /\ (resourcesInThePath(P, last.rb)[1] = Host /\ IsWildcard(last.urlt.Host))
                      => last.err = ErrWildcardHostTemplate
                /\ ~HostIsTheSame(P, last.rb, last.urlt) => last.err # ErrNil
           /\ (last.checks = ErrNil /\ HostIsTheSame(P, last.rb, last.urlt) /\ k # 0) =>
                last.err = IF k > Len(last.urlt.PrefixPath) THEN ErrConflictingPath
                           ELSE ErrConflictingPathSegment

\* ------------------------------------------------------------- wrap runs

ErrNoMiddleware == "ErrNoMiddleware"
ErrNilArgument == "ErrNilArgument"
ErrDummyHost == "ErrDummyHost"
ErrDummyResource == "ErrDummyResource"
ErrNonExistentResource == "ErrNonExistentResource"

\* The length of the longest middleware list, and the number of wrapping
\* calls in a run.
MaxMiddlewares == 3

MaxWraps == 2

\* The middlewares m1 and m2; NilMiddleware is the nil MiddlewareFunc.
NilMiddleware == "nil"

Middlewares == {"m1", "m2", NilMiddleware}

RECURSIVE ListsOf(_, _)
\* The lists of at most n elements of the set.
ListsOf(xs, n) ==
    IF n = 0 THEN {<<>>}
    ELSE ListsOf(xs, n - 1)
             \cup {Append(l, x) : l \in {k \in ListsOf(xs, n - 1) : Len(k) = n - 1}, x \in xs}

MiddlewareLists == ListsOf(Middlewares, MaxMiddlewares)

\* The result of a wrapping method: the handlers and the error.
Wrapped(H, err) == [H |-> H, err |-> err]

RECURSIVE WrapLoop(_, _, _, _, _)
\* The loop over the middlewares from index i on: each one wraps the handler
\* of the field (segmentHandler or requestHandler) of rb as soon as it is
\* reached.
WrapLoop(H, field, rb, mwfs, i) ==
    IF i > Len(mwfs) THEN Wrapped(H, ErrNil)
    ELSE IF mwfs[i] = NilMiddleware THEN Wrapped(H, ErrNilArgument)
    ELSE WrapLoop([H EXCEPT ![field][rb] = Append(@, mwfs[i])], field, rb, mwfs, i + 1)

\* WrapSegmentHandler
WrapSegmentHandler(S, H, rb, mwfs) ==
    IF mwfs = <<>> THEN Wrapped(H, ErrNoMiddleware)
    ELSE WrapLoop(H, "segmentHandler", rb, mwfs, 1)

\* WrapRequestHandler
WrapRequestHandler(S, H, rb, mwfs) ==
    IF mwfs = <<>> THEN Wrapped(H, ErrNoMiddleware)
    ELSE IF ~canHandleRequest(S, rb)
    THEN Wrapped(H, IF rb = Host THEN ErrDummyHost ELSE ErrDummyResource)
    ELSE WrapLoop(H, "requestHandler", rb, mwfs, 1)

\* The host and the resources 1 and 2 as constructed: the resource 1 has a
\* method handler, the resource 2 has none, the host may have one.
InitWrap ==
    \E hostHandles \in BOOLEAN :
        /\ tmpl = HostAlone.tmpl
        /\ mh = [n \in Nodes |-> n = 1 \/ (n = Host /\ hostHandles)]
        /\ papa = HostAlone.papa
        /\ staticResources = HostAlone.staticResources
        /\ patternResources = HostAlone.patternResources
        /\ wildcardResource = HostAlone.wildcardResource
        /\ cfs = HostAlone.cfs
        /\ last = [op |-> "none", err |-> ErrNil, branch |-> "none", allNil |-> TRUE]
        /\ calls = 0
        /\ args = NoArgs
        /\ trace = NoTrace
        /\ argsPool = {}
        /\ requests = <<>>
        /\ handlers = NoHandlers

\* The wrapping method op was called on rb with the middlewares and returned
\* res; the call is remembered with the handlers before it.
WrapReturns(op, rb, mwfs, res) ==
    /\ calls < MaxWraps
    /\ calls' = calls + 1
    /\ handlers' = res.H
    /\ last' = [op |-> op, err |-> res.err, branch |-> "none", allNil |-> last.allNil,
                rb |-> rb, mwfs |-> mwfs, before |-> handlers]
    /\ UNCHANGED <<tmpl, mh, papa, staticResources, patternResources, wildcardResource,
                   cfs, args, trace, argsPool, requests>>

DoWrapSegmentHandler ==
    \E rb \in {Host, 1, 2}, mwfs \in MiddlewareLists :
        WrapReturns("WrapSegmentHandler", rb, mwfs,
                    WrapSegmentHandler(Tree, handlers, rb, mwfs))

DoWrapRequestHandler ==
    \E rb \in {Host, 1, 2}, mwfs \in MiddlewareLists :
        WrapReturns("WrapRequestHandler", rb, mwfs,
                    WrapRequestHandler(Tree, handlers, rb, mwfs))

NextWrap ==
    \/ DoWrapSegmentHandler
    \/ DoWrapRequestHandler

SpecWrap == InitWrap /\ [][NextWrap]_vars

\* The field of the responder a wrapping method wraps.
WrappedField(op) ==
    IF op = "WrapSegmentHandler" THEN "segmentHandler" ELSE "requestHandler"

\* C32: WrapSegmentHandler and WrapRequestHandler either return nil and then
\* the handler is the old one wrapped with every middleware of the list in
\* the order of the list, or return an error (ErrNoMiddleware for an empty
\* list, ErrDummyHost or ErrDummyResource from WrapRequestHandler without a
\* method handler, ErrNilArgument for a nil middleware at any index) and then
\* the segment handler and the request handler of every responder are what
\* they were before the call.
C32_WrapAppliesAllOrNothing ==
    last.op \in {"WrapSegmentHandler", "WrapRequestHandler"} =>
        /\ last.err = ErrNil =>
              handlers = [last.before EXCEPT ![WrappedField(last.op)][last.rb] = @ \o last.mwfs]
        /\ last.err # ErrNil => handlers = last.before
        /\ last.mwfs = <<>> => last.err = ErrNoMiddleware
        /\ (last.mwfs # <<>> /\ last.op = "WrapRequestHandler" /\ ~mh[last.rb]) =>
              last.err = IF last.rb = Host THEN ErrDummyHost ELSE ErrDummyResource
        /\ (/\ last.mwfs # <<>>
            /\ last.op = "WrapRequestHandler" => mh[last.rb]
            /\ \E i \in 1..Len(last.mwfs) : last.mwfs[i] = NilMiddleware) =>
              last.err = ErrNilArgument

\* ------------------------------------------------------------- path runs

\* The number of calls that change the resource at a path in a run.
MaxPathChanges == 2

\* The error newErr("%w", nil) returns: one that wraps no error.
ErrOfNil == "%!w(<nil>)"

\* WrapHandlerOf("*", mwfs) with middlewares that are not nil: the handlers
\* of the HTTP methods in use are wrapped in the order of the list.
WrapHandlerOf(S, H, rb, mwfs) ==
    IF ~S.mh[rb] THEN Wrapped(H, IF rb = Host THEN ErrDummyHost ELSE ErrDummyResource)
    ELSE Wrapped([H EXCEPT !.handlerOf[rb] = @ \o mwfs], ErrNil)

\* The result of an operation on the resource at a path: the tree, the
\* handlers and the error.
Changed(S, H, err) == [S |-> S, H |-> H, err |-> err]

\* ConfigurePath; found is what RegisteredResource returned.
ConfigurePath(S, H, found, config) ==
    IF found.err # ErrNil THEN Changed(found.S, H, found.err)
    ELSE IF found.r = NIL THEN Changed(found.S, H, ErrNonExistentResource)
    ELSE Changed(Configure(found.S, found.r, config).S, H, ErrNil)

\* WrapPathSegmentHandler
WrapPathSegmentHandler(S, H, found, mwfs) ==
    IF found.err # ErrNil THEN Changed(found.S, H, found.err)
    ELSE IF found.r = NIL THEN Changed(found.S, H, ErrNonExistentResource)
    ELSE Changed(found.S, WrapSegmentHandler(found.S, H, found.r, mwfs).H,
                 WrapSegmentHandler(found.S, H, found.r, mwfs).err)

\* WrapPathRequestHandler
WrapPathRequestHandler(S, H, found, mwfs) ==
    IF found.err # ErrNil THEN Changed(found.S, H, found.err)
    ELSE IF found.r = NIL THEN Changed(found.S, H, ErrNonExistentResource)
    ELSE Changed(found.S, WrapRequestHandler(found.S, H, found.r, mwfs).H,
                 WrapRequestHandler(found.S, H, found.r, mwfs).err)

\* WrapPathHandlerOf: without a resource it wraps err, which is nil there.
WrapPathHandlerOf(S, H, found, mwfs) ==
    IF found.err # ErrNil THEN Changed(found.S, H, found.err)
    ELSE IF found.r = NIL THEN Changed(found.S, H, ErrOfNil)
    ELSE Changed(found.S, WrapHandlerOf(found.S, H, found.r, mwfs).H,
                 WrapHandlerOf(found.S, H, found.r, mwfs).err)

\* The tree after h.RegisterResource(r1) and r1.RegisterResource(r2) for the
\* resource r1 = users with a method handler and the dummy r2 = accounts.
PathTree ==
    RegisterResource(
        RegisterResource(
            [Unregistered EXCEPT
                 !.tmpl = [n \in Nodes |-> IF n = Host THEN tHost
                                           ELSE IF n = 1 THEN tUsers
                                           ELSE IF n = 2 THEN tAccounts
                                           ELSE NoTmpl],
                 !.mh = [n \in Nodes |-> n \in {Host, 1}]],
            Host, 1, <<users, accounts>>).S,
        1, 2, <<users, accounts>>).S

\* The path templates of the runs: "", "/", /users, /users/accounts,
\* /accounts, /users/users, /users/{id}, /users/$x
ChangedPaths ==
    {<<>>, RootPath, <<tUsers>>, <<tUsers, tAccounts>>, <<tAccounts>>,
     <<tUsers, tUsers>>, <<tUsers, tId>>, <<tUsers, NameOnly("x")>>}

\* The configs of ConfigurePath and the middleware lists of the wrappers.
PathConfigs == {{}, {flagSecure}, {flagRedirectInsecure}}

PathMiddlewares == {<<"m1">>, <<"m1", "m2">>}

InitPath ==
    /\ tmpl = PathTree.tmpl
    /\ mh = PathTree.mh
    /\ papa = PathTree.papa
    /\ staticResources = PathTree.staticResources
    /\ patternResources = PathTree.patternResources
    /\ wildcardResource = PathTree.wildcardResource
    /\ cfs = PathTree.cfs
    /\ last = [op |-> "none", err |-> ErrNil, branch |-> "none", allNil |-> TRUE]
    /\ calls = 0
    /\ args = NoArgs
    /\ trace = NoTrace
    /\ argsPool = {}
    /\ requests = <<>>
    /\ handlers = NoHandlers

\* The operation op was called with the path template and returned res;
\* the call is remembered with what RegisteredResource found, and with the
\* tree and the handlers before it.
PathReturns(op, found, res) ==
    /\ calls < MaxPathChanges
    /\ calls' = calls + 1
    /\ tmpl' = res.S.tmpl
    /\ mh' = res.S.mh
    /\ papa' = res.S.papa
    /\ staticResources' = res.S.staticResources
    /\ patternResources' = res.S.patternResources
    /\ wildcardResource' = res.S.wildcardResource
    /\ cfs' = res.S.cfs
    /\ handlers' = res.H
    /\ last' = [op |-> op, err |-> res.err, branch |-> "none", allNil |-> last.allNil,
                found |-> [err |-> found.err, r |-> found.r],
                tree |-> Tree, before |-> handlers]
    /\ UNCHANGED <<args, trace, argsPool, requests>>

DoConfigurePath ==
    \E rb \in {Host, 1}, pss \in ChangedPaths, secure \in BOOLEAN, tslash \in BOOLEAN,
       config \in PathConfigs :
        PathReturns("ConfigurePath", RegisteredResource(Tree, rb, pss, secure, tslash),
                    ConfigurePath(Tree, handlers,
                                  RegisteredResource(Tree, rb, pss, secure, tslash), config))

DoWrapPathSegmentHandler ==
    \E rb \in {Host, 1}, pss \in ChangedPaths, secure \in BOOLEAN, tslash \in BOOLEAN,
       mwfs \in PathMiddlewares :
        PathReturns("WrapPathSegmentHandler", RegisteredResource(Tree, rb, pss, secure, tslash),
                    WrapPathSegmentHandler(Tree, handlers,
                                           RegisteredResource(Tree, rb, pss, secure, tslash), mwfs))

DoWrapPathRequestHandler ==
    \E rb \in {Host, 1}, pss \in ChangedPaths, secure \in BOOLEAN, tslash \in BOOLEAN,
       mwfs \in PathMiddlewares :
        PathReturns("WrapPathRequestHandler", RegisteredResource(Tree, rb, pss, secure, tslash),
                    WrapPathRequestHandler(Tree, handlers,
                                           RegisteredResource(Tree, rb, pss, secure, tslash), mwfs))

DoWrapPathHandlerOf ==
    \E rb \in {Host, 1}, pss \in ChangedPaths, secure \in BOOLEAN, tslash \in BOOLEAN,
       mwfs \in PathMiddlewares :
        PathReturns("WrapPathHandlerOf", RegisteredResource(Tree, rb, pss, secure, tslash),
                    WrapPathHandlerOf(Tree, handlers,
                                      RegisteredResource(Tree, rb, pss, secure, tslash), mwfs))

NextPath ==
    \/ DoConfigurePath
    \/ DoWrapPathSegmentHandler
    \/ DoWrapPathRequestHandler
    \/ DoWrapPathHandlerOf

SpecPath == InitPath /\ [][NextPath]_vars

\* C33: ConfigurePath, WrapPathSegmentHandler, WrapPathRequestHandler and
\* WrapPathHandlerOf return ErrNonExistentResource when the path template
\* leads to no registered resource, and then the tree and the handlers are
\* what they were before the call.
C33_NoResourceAtThePath ==
    (/\ last.op \in {"ConfigurePath", "WrapPathSegmentHandler", "WrapPathRequestHandler",
                     "WrapPathHandlerOf"}
     /\ last.found.err = ErrNil /\ last.found.r = NIL) =>
        /\ last.err = ErrNonExistentResource
        /\ Tree = last.tree
        /\ handlers = last.before

\* ------------------------------------------------------------- pattern runs

\* What a call of a method that returns a bool did: it returned the value, or
\* it panicked.
Returned(value) == [value |-> value, panic |-> FALSE]

Panicked == [value |-> FALSE, panic |-> TRUE]

RECURSIVE HasPatternLoop(_, _)
\* The loop of HasPattern from index i on; the nil valuePattern of a static
\* slice is dereferenced.
HasPatternLoop(t, i) ==
    IF i > Len(t.slices) THEN Returned(FALSE)
    ELSE IF t.slices[i].valuePattern.isNil THEN Panicked
    ELSE IF t.slices[i].valuePattern.re # NoRe THEN Returned(TRUE)
    ELSE HasPatternLoop(t, i + 1)

\* Template.HasPattern
HasPattern(t) == HasPatternLoop(t, 1)

\* HasPattern() of the template of TryToParse(tmplStr) is called.
DoHasPattern ==
    /\ last.op = "none"
    /\ \E tmplStr \in ParsedTemplateStrings :
        last' = [op |-> "HasPattern", err |-> ErrNil, branch |-> "none", allNil |-> TRUE,
                 tmplStr |-> tmplStr, t |-> TryToParse(tmplStr).tmpl,
                 hasPattern |-> HasPattern(TryToParse(tmplStr).tmpl)]
    /\ calls' = calls + 1
    /\ UNCHANGED <<tmpl, mh, papa, staticResources, patternResources,
                   wildcardResource, cfs, args, trace, argsPool, requests, handlers>>

NextPattern == DoHasPattern

SpecPattern == InitParse /\ [][NextPattern]_vars

\* C34: HasPattern returns, for every template that was parsed, whether
\* some slice of the template has a regex; it returns false and does not
\* panic for a static template, for a wildcard and for a template of static
\* slices and a wildcard.
C34_HasPatternIsTotal ==
    last.op = "HasPattern" =>
        /\ ~last.hasPattern.panic
        /\ last.hasPattern.value = (\E i \in 1..Len(last.t.slices) :
                                 /\ ~last.t.slices[i].valuePattern.isNil
                                 /\ last.t.slices[i].valuePattern.re # NoRe)

\* ------------------------------------------------------------- subtree runs

\* The lists a traversal of the direct children alone queues: none.
ResourcesOfNone(S, crs, ord) == <<>>

RECURSIVE ResourcesOfEach(_, _, _)
\* The lists traverseAndCall queues while it goes through the list crs: the
\* _Resources() of each responder that has some.
ResourcesOfEach(S, crs, ord) ==
    IF crs = <<>> THEN <<>>
    ELSE (IF ChildResources(S, Head(crs), ord) # <<>>
          THEN <<ChildResources(S, Head(crs), ord)>> ELSE <<>>)
             \o ResourcesOfEach(S, Tail(crs), ord)

\* What traverseAndCall did: the responders f was called on, in order, and
\* Diverge when the traversal does not end.
Traversed(visited, err) == [visited |-> visited, err |-> err]

RECURSIVE traverseAndCall(_, _, _, _)
\* traverseAndCall with an f that returns nil and leaves the child buckets
\* alone: nodes is the linked list of the lists of responders from currentN
\* on.
traverseAndCall(S, nodes, ord, fuel) ==
    IF nodes = <<>> THEN Traversed(<<>>, ErrNil)
    ELSE IF fuel = 0 THEN Traversed(<<>>, Diverge)
    ELSE LET rest == traverseAndCall(S, Tail(nodes) \o ResourcesOfEach(S, Head(nodes), ord),
                                     ord, fuel - 1)
         IN Traversed(Head(nodes) \o rest.visited, rest.err)

RECURSIVE ConfigureEach(_, _, _)
\* Configure(config) is called on the responders of the list, one after the
\* other.
ConfigureEach(S, rs, config) ==
    IF rs = <<>> THEN S
    ELSE ConfigureEach(Configure(S, Head(rs), config).S, Tail(rs), config)

\* The list traverseAndCall starts with: rb._Resources(), or no list when
\* that is nil.
ListOf(rs) == IF rs = <<>> THEN <<>> ELSE <<rs>>

\* The number of ConfigureSubtree calls in a run.
MaxSubtreeCalls == 2

\* The resources x = $x:{id:^[a]+$} and {id} with method handlers, not
\* registered.
SubtreeTree0 ==
    [Unregistered EXCEPT
         !.tmpl = [n \in Nodes |-> IF n = Host THEN tHost
                                   ELSE IF n = 1 THEN tXId
                                   ELSE IF n = 2 THEN tId
                                   ELSE NoTmpl],
         !.mh = [n \in Nodes |-> n \in {Host, 1, 2}]]

\* The tree after h.Resource("/users/accounts"), which creates the
\* resources users and accounts.
SubtreeTree1 == Resource(SubtreeTree0, Host, <<tUsers, tAccounts>>, FALSE, FALSE).S

\* The resource /users/accounts of these trees.
SubtreeAccounts == Resource(SubtreeTree0, Host, <<tUsers, tAccounts>>, FALSE, FALSE).r

\* ... and after RegisterResource(x) on /users/accounts,
SubtreeTree2 == RegisterResource(SubtreeTree1, SubtreeAccounts, 1, <<users, accounts>>).S

\* ... after RegisterResource({id}) on /users,
SubtreeTree3 ==
    RegisterResource(SubtreeTree2, SubtreeTree2.papa[SubtreeAccounts], 2, <<users, accounts>>).S

\* ... and after h.Resource("https:///$u:accounts").
SubtreeTree4 == Resource(SubtreeTree3, Host, <<tUAccounts>>, TRUE, FALSE).S

SubtreeTrees == {SubtreeTree0, SubtreeTree1, SubtreeTree2, SubtreeTree3, SubtreeTree4}

InitSubtree ==
    \E S \in SubtreeTrees :
        /\ tmpl = S.tmpl
        /\ mh = S.mh
        /\ papa = S.papa
        /\ staticResources = S.staticResources
        /\ patternResources = S.patternResources
        /\ wildcardResource = S.wildcardResource
        /\ cfs = S.cfs
        /\ last = [op |-> "none", err |-> ErrNil, branch |-> "none", allNil |-> TRUE]
        /\ calls = 0
        /\ args = NoArgs
        /\ trace = NoTrace
        /\ argsPool = {}
        /\ requests = <<>>
        /\ handlers = NoHandlers

\* ConfigureSubtree(config) is called on a responder and returns; the call
\* is remembered with the responders it visited and the tree before it.
DoConfigureSubtreeOf ==
    \E rb \in Live(Tree), config \in ConfigsOf \cup {{}}, ord \in OrdersOf(Tree) :
        LET t == traverseAndCall(Tree, ListOf(ChildResources(Tree, rb, ord)), ord, Fuel)
            S == ConfigureEach(Tree, t.visited, config)
        IN /\ t.err = ErrNil
           /\ calls < MaxSubtreeCalls
           /\ calls' = calls + 1
           /\ cfs' = S.cfs
           /\ last' = [op |-> "ConfigureSubtree", err |-> ErrNil, branch |-> "none",
                       allNil |-> last.allNil, rb |-> rb, config |-> config,
                       visited |-> t.visited, before |-> Tree]
           /\ UNCHANGED <<tmpl, mh, papa, staticResources, patternResources,
                          wildcardResource, args, trace, argsPool, requests, handlers>>

NextSubtree == DoConfigureSubtreeOf

SpecSubtree == InitSubtree /\ [][NextSubtree]_vars

RECURSIVE Below(_, _, _)
\* The nodes below the nodes of the set, the set included, at most k levels
\* down.
Below(S, ns, k) ==
    IF k = 0 THEN ns
    ELSE Below(S, ns \cup UNION {ChildSet(S, n) : n \in ns}, k - 1)

\* The nodes strictly below n.
StrictlyBelow(S, n) == Below(S, ChildSet(S, n), Cardinality(Nodes))

\* What is below n is a tree: no node below n is below itself or in the
\* buckets of two nodes, and n is not below itself.
IsTreeBelow(S, n) ==
    /\ \A m \in StrictlyBelow(S, n) \cup {n} : m \notin StrictlyBelow(S, m)
    /\ \A m \in StrictlyBelow(S, n) :
          Cardinality({p \in StrictlyBelow(S, n) \cup {n} : m \in ChildSet(S, p)}) = 1

\* C35: the traversal of ConfigureSubtree ends on every tree and visits
\* every node strictly below the receiver, at every depth, exactly once;
\* after ConfigureSubtree(config) the flags of each of these nodes are active
\* and the flags of the config, the flags of the receiver and of every other
\* node are what they were, and no parent link and no child bucket changed.
C35_ConfigureSubtreeConfiguresEveryNodeBelow ==
    /\ \A rb \in Live(Tree), ord \in OrdersOf(Tree) :
          IsTreeBelow(Tree, rb) =>
              LET t == traverseAndCall(Tree, ListOf(ChildResources(Tree, rb, ord)), ord, Fuel)
              IN /\ t.err = ErrNil
                 /\ {t.visited[i] : i \in 1..Len(t.visited)} = StrictlyBelow(Tree, rb)
                 /\ Len(t.visited) = Cardinality(StrictlyBelow(Tree, rb))
    /\ (last.op = "ConfigureSubtree" /\ IsTreeBelow(last.before, last.rb)) =>
          /\ \A n \in StrictlyBelow(last.before, last.rb) :
                cfs[n] = {flagActive} \cup asFlags(last.config)
          /\ \A n \in Nodes \ StrictlyBelow(last.before, last.rb) :
                cfs[n] = last.before.cfs[n]
          /\ Tree = [last.before EXCEPT !.cfs = cfs]

\* ConfigureSubtree was called on a responder with a child, a grandchild
\* and a great-grandchild that had other flags before.
C35_Witness ==
    /\ last.op = "ConfigureSubtree" /\ IsTreeBelow(last.before, last.rb)
    /\ \E n \in ChildSet(Tree, last.rb) :
          \E m \in ChildSet(Tree, n) :
              \E k \in ChildSet(Tree, m) : last.before.cfs[k] # cfs[k]

\* ------------------------------------------------------------- read runs

\* The number of lookups in a run.
MaxLookups == 2

\* The result of a lookup built on RegisteredResource: the tree, the error
\* and the value read from the resource.
Looked(S, err, value) == [S |-> S, err |-> err, value |-> value]

\* PathConfig: the config flags of the resource found.
PathConfig(found) ==
    IF found.err # ErrNil THEN Looked(found.S, found.err, {})
    ELSE IF found.r = NIL THEN Looked(found.S, ErrNonExistentResource, {})
    ELSE Looked(found.S, ErrNil, found.S.cfs[found.r])

\* PathHandlerOf: whether the resource found has a handler of the method.
PathHandlerOf(found) ==
    IF found.err # ErrNil THEN Looked(found.S, found.err, FALSE)
    ELSE IF found.r = NIL THEN Looked(found.S, ErrNonExistentResource, FALSE)
    ELSE Looked(found.S, ErrNil, found.S.mh[found.r])

\* ImplementationAt: the resource whose implementation is returned.
ImplementationAt(found) ==
    IF found.err # ErrNil THEN Looked(found.S, found.err, NIL)
    ELSE IF found.r = NIL THEN Looked(found.S, ErrNonExistentResource, NIL)
    ELSE Looked(found.S, ErrNil, found.r)

\* The lookup op was made with the path template and returned res; the call
\* is remembered with what RegisteredResource found and the tree before it.
LookupReturns(op, found, res) ==
    /\ calls < MaxLookups
    /\ calls' = calls + 1
    /\ tmpl' = res.S.tmpl
    /\ mh' = res.S.mh
    /\ papa' = res.S.papa
    /\ staticResources' = res.S.staticResources
    /\ patternResources' = res.S.patternResources
    /\ wildcardResource' = res.S.wildcardResource
    /\ cfs' = res.S.cfs
    /\ last' = [op |-> op, err |-> res.err, branch |-> "none", allNil |-> last.allNil,
                found |-> [err |-> found.err, r |-> found.r], tree |-> Tree]
    /\ UNCHANGED <<args, trace, argsPool, requests, handlers>>

DoRegisteredResourceAt ==
    \E rb \in {Host, 1}, pss \in ChangedPaths, secure \in BOOLEAN, tslash \in BOOLEAN :
        LookupReturns("RegisteredResource", RegisteredResource(Tree, rb, pss, secure, tslash),
                      RegisteredResource(Tree, rb, pss, secure, tslash))

DoPathConfig ==
    \E rb \in {Host, 1}, pss \in ChangedPaths, secure \in BOOLEAN, tslash \in BOOLEAN :
        LookupReturns("PathConfig", RegisteredResource(Tree, rb, pss, secure, tslash),
                      PathConfig(RegisteredResource(Tree, rb, pss, secure, tslash)))

DoPathHandlerOf ==
    \E rb \in {Host, 1}, pss \in ChangedPaths, secure \in BOOLEAN, tslash \in BOOLEAN :
        LookupReturns("PathHandlerOf", RegisteredResource(Tree, rb, pss, secure, tslash),
                      PathHandlerOf(RegisteredResource(Tree, rb, pss, secure, tslash)))

DoImplementationAt ==
    \E rb \in {Host, 1}, pss \in ChangedPaths, secure \in BOOLEAN, tslash \in BOOLEAN :
        LookupReturns("ImplementationAt", RegisteredResource(Tree, rb, pss, secure, tslash),
                      ImplementationAt(RegisteredResource(Tree, rb, pss, secure, tslash)))

NextRead ==
    \/ DoRegisteredResourceAt
    \/ DoPathConfig
    \/ DoPathHandlerOf
    \/ DoImplementationAt

SpecRead == InitPath /\ [][NextRead]_vars

\* C36: RegisteredResource, PathConfig, PathHandlerOf and ImplementationAt
\* change nothing: after the lookup, whether it found a resource, found none
\* or failed, the config flags, the child buckets and the parent link of
\* every node are what they were, and a resource that was inactive is still
\* inactive.
C36_LookupsAreReadOnly ==
    last.op \in {"RegisteredResource", "PathConfig", "PathHandlerOf", "ImplementationAt"} =>
        /\ Tree = last.tree
        /\ \A n \in Nodes : flagActive \notin last.tree.cfs[n] => flagActive \notin cfs[n]

\* ------------------------------------------------------------- index runs

\* C37: passRequestToChildResource leaves Args.currentPathSegmentIdx as it
\* was on entry on every return path (bad escape, child selected, subtree
\* fallback, not found), so that the caller's RemainingPath and
\* reachedTheLastPathSegment are those of the caller's own segment.
C37_IndexIsRestored ==
    trace.rb # NIL =>
        /\ args.currentPathSegmentIdx = trace.before.currentPathSegmentIdx
        /\ args.path = trace.before.path
        /\ reachedTheLastPathSegment(args) = reachedTheLastPathSegment(trace.before)
        /\ RemainingPath(Tree, [args EXCEPT !.r = trace.rb])
               = RemainingPath(Tree, [trace.before EXCEPT !.r = trace.rb])

\* A child was selected after nextPathSegment had moved the index on.
C37_Witness ==
    /\ trace.rb # NIL
    /\ trace.invoked # <<>>
    /\ ~trace.seg.err
    /\ trace.seg.args.currentPathSegmentIdx # trace.before.currentPathSegmentIdx
    /\ args.currentPathSegmentIdx = trace.before.currentPathSegmentIdx

\* ------------------------------------------------------------- repeated runs

\* The configs of the repeated calls: the zero Config, SubtreeHandler,
\* Secure, RedirectInsecureRequest, TrailingSlash, and TrailingSlash with
\* LeniencyOnTrailingSlash.
RepeatedConfigs ==
    {{}, {flagSubtreeHandler}, {flagSecure}, {flagRedirectInsecure}, {flagTrailingSlash},
     {flagTrailingSlash, flagLeniencyOnTrailingSlash}}

\* No ResourceUsingConfig call has been made.
NoConfigCall ==
    [err |-> ErrNil, rb |-> NIL, path |-> <<>>, secure |-> FALSE, tslash |-> FALSE,
     config |-> {}, r |-> NIL, created |-> FALSE]

\* The ResourceUsingConfig call made last, if the last call was one.
LastConfigCall ==
    IF last.op = "ResourceUsingConfig"
    THEN [err |-> last.err, rb |-> last.rb, path |-> last.path, secure |-> last.secure,
          tslash |-> last.tslash, config |-> last.config, r |-> last.r,
          created |-> last.created]
    ELSE NoConfigCall

\* ResourceUsingConfig(path, config) on rb returned res: the tree is what the
\* call left; the call is remembered with the call before it and with
\* whether the node it returned is new.
ReturnsUsingConfig(rb, path, secure, tslash, config, res) ==
    /\ res.err \notin {Diverge, OutOfNodes}
    /\ calls < MaxCalls
    /\ calls' = calls + 1
    /\ tmpl' = res.S.tmpl
    /\ mh' = res.S.mh
    /\ papa' = res.S.papa
    /\ staticResources' = res.S.staticResources
    /\ patternResources' = res.S.patternResources
    /\ wildcardResource' = res.S.wildcardResource
    /\ cfs' = res.S.cfs
    /\ last' = [op |-> "ResourceUsingConfig", err |-> res.err, branch |-> "none",
                allNil |-> last.allNil, rb |-> rb, path |-> path, secure |-> secure,
                tslash |-> tslash, config |-> config, r |-> res.r,
                created |-> res.err = ErrNil /\ res.r \notin Live(Tree),
                before |-> Live(Tree), prev |-> LastConfigCall]
    /\ UNCHANGED <<args, trace, argsPool, requests, handlers>>

\* ResourceUsingConfig(path, config) is called on a host or a resource, with
\* an http or https template with or without a trailing slash, while a call
\* can follow it.
DoResourceUsingConfigAt ==
    \E rb \in Live(Tree), path \in Paths, secure, tslash \in BOOLEAN,
       config \in RepeatedConfigs :
        /\ calls + 1 < MaxCalls
        /\ ReturnsUsingConfig(rb, path, secure, tslash, config,
                              ResourceUsingConfig(Tree, rb, path, secure, tslash, config))

\* ResourceUsingConfig is called again, on the receiver and with the path
\* template and the config of the successful call before.
DoResourceUsingConfigAgain ==
    /\ last.op = "ResourceUsingConfig" /\ last.err = ErrNil
    /\ ReturnsUsingConfig(last.rb, last.path, last.secure, last.tslash, last.config,
                          ResourceUsingConfig(Tree, last.rb, last.path, last.secure,
                                              last.tslash, last.config))

NextRepeated ==
    \/ DoResourceUsingConfigAt
    \/ DoResourceUsingConfigAgain

\* A host without resources, configured or not.
InitRepeated ==
    \E hostCfs \in {{}, {flagActive}} :
        /\ tmpl = HostAlone.tmpl
        /\ mh = HostAlone.mh
        /\ papa = HostAlone.papa
        /\ staticResources = HostAlone.staticResources
        /\ patternResources = HostAlone.patternResources
        /\ wildcardResource = HostAlone.wildcardResource
        /\ cfs = [HostAlone.cfs EXCEPT ![Host] = hostCfs]
        /\ last = [op |-> "none", err |-> ErrNil, branch |-> "none", allNil |-> TRUE]
        /\ calls = 0
        /\ args = NoArgs
        /\ trace = NoTrace
        /\ argsPool = {}
        /\ requests = <<>>
        /\ handlers = NoHandlers

SpecRepeated == InitRepeated /\ [][NextRepeated]_vars

\* The call made last has the receiver, the path template and the config of
\* the call before it, which succeeded and created the node it returned.
Repeated ==
    /\ last.op = "ResourceUsingConfig"
    /\ last.prev.rb # NIL /\ last.prev.err = ErrNil /\ last.prev.created
    /\ last.rb = last.prev.rb /\ last.path = last.prev.path
    /\ last.secure = last.prev.secure /\ last.tslash = last.prev.tslash
    /\ last.config = last.prev.config

\* C38: after a ResourceUsingConfig(p, c) that succeeded and created a node,
\* ResourceUsingConfig(p, c) on the same receiver succeeds again and returns
\* the same node, for every config c and every path template p.
C38_ResourceUsingConfigIsIdempotent ==
    Repeated =>
        /\ last.err = ErrNil
        /\ last.r = last.prev.r

\* ------------------------------------------------------------- bucket runs

\* Two more pattern templates, $y:{n:^[b]+$} and $z:{id:^[a]+$}: the first is
\* different from $x:{id:^[a]+$}, the second has its pattern under another name.
tYNum == Template("y", <<DynamicSlice("n", Regex({"b"}, TRUE, TRUE))>>, -1)

tZId == Template("z", <<DynamicSlice("id", Regex({"a"}, TRUE, TRUE))>>, -1)

\* $p:{a:^[a]+}x and $q:x{a:^[a]+}, as parsing returns them.
tPAX == Template("p", <<DynamicSlice("a", Regex({"a"}, TRUE, FALSE)), StaticSlice(<<"x">>)>>, -1)

tQXA == Template("q", <<StaticSlice(<<"x">>), DynamicSlice("a", Regex({"a"}, TRUE, FALSE))>>, -1)

\* The resources the caller constructs in the bucket runs.
BucketKinds ==
    << [tmpl |-> tUsers, mh |-> TRUE],
       [tmpl |-> tUAccounts, mh |-> FALSE],
       [tmpl |-> tId, mh |-> TRUE],
       [tmpl |-> tXId, mh |-> FALSE],
       [tmpl |-> tXId, mh |-> TRUE],
       [tmpl |-> tYNum, mh |-> TRUE],
       [tmpl |-> tZId, mh |-> TRUE],
       [tmpl |-> tPAX, mh |-> TRUE],
       [tmpl |-> tQXA, mh |-> TRUE] >>

InitBuckets ==
    \E k \in [PoolNodes -> 1..Len(BucketKinds)] :
        /\ \A i, j \in PoolNodes : i <= j => k[i] <= k[j]
        /\ tmpl = [n \in Nodes |-> IF n = Host THEN tHost
                                   ELSE IF n \in PoolNodes THEN BucketKinds[k[n]].tmpl
                                   ELSE NoTmpl]
        /\ mh = [n \in Nodes |-> IF n \in PoolNodes THEN BucketKinds[k[n]].mh ELSE n = Host]
        /\ cfs = [n \in Nodes |-> {}]
        /\ papa = [n \in Nodes |-> NIL]
        /\ staticResources = [n \in Nodes |-> EmptyMap]
        /\ patternResources = [n \in Nodes |-> <<>>]
        /\ wildcardResource = [n \in Nodes |-> NIL]
        /\ last = [op |-> "none", err |-> ErrNil, branch |-> "none", allNil |-> TRUE]
        /\ calls = 0
        /\ args = NoArgs
        /\ trace = NoTrace
        /\ argsPool = {}
        /\ requests = <<>>
        /\ handlers = NoHandlers

NextBuckets ==
    \/ DoRegisterResource
    \/ DoRegisterResourceUnder
    \/ DoResource

SpecBuckets == InitBuckets /\ [][NextBuckets]_vars

\* C39: the child buckets of every node are well formed: a child in the
\* static map has a static template and is stored under its own unescaped
\* content, the wildcard slot holds a wildcard-only template, the pattern
\* list holds templates that are neither, no child is listed twice, and any
\* two children of the pattern list have similarity Different.
C39_BucketsAreWellFormed ==
    \A n \in Live(Tree) :
        /\ \A key \in DOMAIN staticResources[n] :
               /\ IsStatic(tmpl[staticResources[n][key]])
               /\ UnescapedContent(tmpl[staticResources[n][key]]) = key
        /\ wildcardResource[n] # NIL => IsWildcard(tmpl[wildcardResource[n]])
        /\ \A i \in 1..Len(patternResources[n]) :
               /\ ~IsStatic(tmpl[patternResources[n][i]])
               /\ ~IsWildcard(tmpl[patternResources[n][i]])
        /\ \A i, j \in 1..Len(patternResources[n]) :
               i # j =>
                   /\ patternResources[n][i] # patternResources[n][j]
                   /\ SimilarityWith(tmpl[patternResources[n][i]],
                                     tmpl[patternResources[n][j]]) = Different
        /\ \A key1, key2 \in DOMAIN staticResources[n] :
               key1 # key2 => staticResources[n][key1] # staticResources[n][key2]

\* ------------------------------------------------------------- no backtracking

\* The children of rb, other than the selected one, that the segment ps
\* could have been passed to.
OtherCandidates(S, rb, ps) ==
    ({S.patternResources[rb][i] : i \in {j \in 1..Len(S.patternResources[rb]) :
                                            Match(S.tmpl[S.patternResources[rb][j]], ps).matched}}
        \cup (IF S.wildcardResource[rb] # NIL THEN {S.wildcardResource[rb]} ELSE {}))
    \ {Selected(S, rb, ps)}

\* C40: dispatch does not backtrack: once a child is selected for the segment
\* (static hit, first matching pattern child, or the wildcard child) the
\* segment handler of no other child is invoked, even when the selected child
\* leaves the request unhandled; the call returns the handled value the
\* child left and does not invoke the not-found handler.
C40_DispatchDoesNotBacktrack ==
    (PassedOn /\ trace.seg.ps # <<>> /\ Selected(Tree, trace.rb, trace.seg.ps) # NIL) =>
        /\ Len(trace.invoked) = 1
        /\ \A c \in OtherCandidates(Tree, trace.rb, trace.seg.ps) :
               \A i \in 1..Len(trace.invoked) : trace.invoked[i] # c
        /\ trace.ret = args.handled
        /\ trace.notFound = 0 /\ trace.badRequest = 0

\* The first matching pattern child of the host left the request unhandled
\* while another pattern child and the wildcard child match the segment
\* too: the call returned false.
C40_Witness ==
    /\ PassedOn /\ trace.rb = Host /\ trace.seg.ps # <<>>
    /\ Len(trace.invoked) = 1
    /\ Len(patternResources[Host]) = 2
    /\ trace.invoked[1] = patternResources[Host][1]
    /\ Cardinality(OtherCandidates(Tree, Host, trace.seg.ps)) = 2
    /\ ~trace.before.subtreeExists
    /\ ~args.handled /\ ~trace.ret

====
